---- MODULE Spec2Model ----
(***************************************************************************)
(* A model of the benchmark harness of Snektron/amd-experiments:           *)
(*   benchmark::executor (constructor, bench, destructor)  benchmark.hpp   *)
(*   gpu::stream / gpu::event / gpu::device::sync           gpu.hpp        *)
(* One controlling thread issues runtime calls; the device executes the    *)
(* operations enqueued on its streams asynchronously to that thread.       *)
(***************************************************************************)
EXTENDS Integers, Sequences, FiniteSets, TLC

(***************************************************************************)
(* Bounds of the model.                                                    *)
(***************************************************************************)
\* benchmark.hpp:131 `constexpr size_t warmups = 10`, scaled down
warmups == 2
\* benchmark.hpp:132 `constexpr size_t iterations = 50`, scaled down
iterations == 2
\* the most kernels one call of the workload enqueues on the stream
MaxWorkOps == 1
\* the device times (in clock ticks) one kernel may take
KernelTicks == {1, 2}
\* the most devices an API enumerates on a host
MaxDevices == 2
\* the longest vector of samples given to statistic<T>
MaxSamples == 3
\* the samples given to statistic<T> are in -MaxSample..MaxSample
MaxSample == 2
\* the most characters a codename has after "gfx"
MaxSuffix == 4
\* the most resource wrappers of one type that exist in a scenario
MaxObjects == 3
\* the cache sizes a device reports are in 0..MaxCacheSize
MaxCacheSize == 2
\* the operands of the family_set operators are the unions of at most
\* MaxUnion families and the complements of these
MaxUnion == 1
\* the characters these are
ArchChars == {"0", "1", "2", "3", "4", "5", "6", "8", "9", "a", "c"}
\* the values the fields of a bus address take on the hosts considered
Domains == {0, 1}
Buses == {0, 32}
Slots == {0}
Functions == {0}

(***************************************************************************)
(* Status codes and performance levels.                                    *)
(***************************************************************************)
hipSuccess == "hipSuccess"
\* the non-success hipError_t values the runtime is taken to return
HipErrors == {"hipErrorInvalidValue", "hipErrorLaunchFailure"}

RSMI_STATUS_SUCCESS == "RSMI_STATUS_SUCCESS"
RSMI_STATUS_PERMISSION == "RSMI_STATUS_PERMISSION"
\* the non-success rsmi_status_t values the telemetry library is taken to return
RsmiErrors == {RSMI_STATUS_PERMISSION, "RSMI_STATUS_NOT_SUPPORTED"}

RSMI_DEV_PERF_LEVEL_UNKNOWN == "UNKNOWN"
RSMI_DEV_PERF_LEVEL_STABLE_PEAK == "STABLE_PEAK"
\* the levels a device can be in (UNKNOWN is the library's "no value" member)
DevLevels == {"AUTO", "MANUAL", RSMI_DEV_PERF_LEVEL_STABLE_PEAK}

\* an event that has not been recorded on the device has no timestamp
NoTime == 0 - 1
NoError == [kind |-> "none"]
\* the process has not exited
NoExit == 0 - 1
\* no cache size has been computed
NoSize == 0 - 1
\* no device code was built
NoTarget == <<>>
\* no family_set expression has been evaluated
NoExpression == [operator |-> "none"]
\* no operation on a resource wrapper yet
NoOp == [op |-> "none"]
NoStats == [kind |-> "none"]

VARIABLES
    pc,              \* position of the controlling thread
    i,               \* loop counter of the running loop of bench
    nKernels,        \* kernels the workload f of the running bench enqueues
    events,          \* bench: events[k] = [start, stop] device timestamps
    durations,       \* bench: the vector of elapsed samples
    result,          \* what the last bench call returned
    err,             \* the exception in flight / delivered to the caller
    nullQ,           \* device: operations pending on the default (null) stream
    streamQ,         \* device: operations pending on executor.stream
    clock,           \* device: the device clock, counted from the start of the
                     \*   running bench call (timestamps of different calls
                     \*   are never compared)
    asyncErr,        \* device: deferred error of an executed operation
    perf,            \* telemetry: the device's performance level
    orig_perf_level, \* executor.orig_perf_level
    calls,           \* history: runtime calls issued by the running bench
    smiLog,          \* history: performance-level calls issued, in order
    warnings,        \* history: warnings written to std::cerr
    levelBefore,     \* history: perf immediately before construction
    agents,          \* host: bus addresses of the agents HSA iterates over
    enumeration,     \* host: bus addresses of the devices the telemetry
                     \*   library monitors, by library index (from 0)
    dev,             \* the gpu::device: hip_ordinal, hsa_agent, pci_address
    rsmi_dev,        \* executor.rsmi_dev
    held,            \* runtime resources the executor's members own
    rsmiCalls,       \* history: the other telemetry-library calls, in order
    item_type,       \* statistic<T>: the instantiation, T
    items,           \* statistic<T>: the vector of samples given to it
    stat,            \* statistic<T>: the object constructed from items
    arch_name,       \* get_family: properties.arch_name of the device
    family,          \* get_family: the family_set returned
    build_target,    \* the target the device code that runs was built for
    device_family,   \* get_device_family: the family_set returned
    exit_status,     \* the status the process exited with
    cerr,            \* what main wrote to std::cerr for an exception
    objects,         \* resource wrappers: the raw handle each object holds
    acquired,        \* history: the runtime resources acquired
    releases,        \* history: the release calls issued, in order
    last_op,         \* history: the last operation on the wrappers
    cache_size,      \* properties.cache_size, levels L1..L4
    flush_size,      \* largest_cache_size: the size returned
    fs_a,            \* family_set: the object a
    fs_b,            \* family_set: the object b
    fs_mutable,      \* family_set: a is not declared const
    fs_expr,         \* family_set: the expression evaluated
    fs_value,        \* family_set: the value of the expression
    governors,       \* two executors on one device: where each one is
    overlapped       \* history: their lifetimes have overlapped

threadVars == <<pc, i, nKernels, events, durations, result, err>>
deviceVars == <<nullQ, streamQ, clock, asyncErr>>
smiVars == <<perf, orig_perf_level, smiLog, warnings, levelBefore>>
hostVars == <<agents, enumeration>>
raceVars == <<governors, overlapped>>
execVars == <<dev, rsmi_dev, held, rsmiCalls>>
\* what neither bench nor the device changes
statVars == <<item_type, items, stat>>
classVars == <<arch_name, family, build_target, device_family>>
exitVars == <<exit_status, cerr>>
moveVars == <<objects, acquired, releases, last_op>>
cacheVars == <<cache_size, flush_size>>
setVars == <<fs_a, fs_b, fs_mutable, fs_expr, fs_value>>
unitVars == <<moveVars, cacheVars, setVars>>
benchFrame == <<smiVars, hostVars, raceVars, execVars, statVars, classVars, exitVars, unitVars>>
vars == <<threadVars, deviceVars, smiVars, hostVars, raceVars, execVars, statVars, classVars,
          exitVars, unitVars, calls>>

(***************************************************************************)
(* Errors: GPU_TRY / RSMI_TRY throw an error carrying the status code and  *)
(* the runtime's message for it.                                           *)
(***************************************************************************)
hipGetErrorString(status) ==
    CASE status = "hipErrorInvalidValue" -> "invalid argument"
      [] status = "hipErrorLaunchFailure" -> "unspecified launch failure"
      [] status = "hipErrorNotReady" -> "device not ready"
      [] OTHER -> "unknown error"

\* gpu::error(hipError_t): what() is "{message} ({code})"
gpu_error(status) ==
    [kind |-> "gpu::error", status |-> status,
     what |-> <<hipGetErrorString(status), status>>]

rsmi_strerror(status) ==
    CASE status = RSMI_STATUS_PERMISSION -> "permission denied"
      [] OTHER -> "not supported"

\* benchmark::rsmi_error(rsmi_status_t)
rsmi_error(status) ==
    [kind |-> "rsmi_error", status |-> status,
     what |-> <<rsmi_strerror(status), status>>]

\* faulty variant: the failed lookup is reported as an error of the
\* telemetry library
map_error_as_status(hip_ordinal) == rsmi_error("RSMI_STATUS_NOT_FOUND")

\* traced_error("could not map HIP device id {} to an RSMI device id", ordinal);
\* args are the values formatted into the message
map_error(hip_ordinal) ==
    [kind |-> "traced_error", status |-> "none",
     what |-> <<"could not map HIP device id to an RSMI device id", hip_ordinal>>,
     args |-> [hip_ordinal |-> hip_ordinal]]

\* traced_error("could not map HIP device id {} to a HSA device", ordinal)
hsa_map_error(hip_ordinal) ==
    [kind |-> "traced_error", status |-> "none",
     what |-> <<"could not map HIP device id to a HSA device", hip_ordinal>>,
     args |-> [hip_ordinal |-> hip_ordinal]]

(***************************************************************************)
(* Statistics bench computes over the samples (lines 315-335). The samples *)
(* are integers (device ticks); the average and the variance are kept as   *)
(* exact fractions num/den.                                                *)
(***************************************************************************)
RECURSIVE fold_left_plus(_)
fold_left_plus(s) == IF s = <<>> THEN 0 ELSE Head(s) + fold_left_plus(Tail(s))

RECURSIVE minOf(_)
minOf(s) ==
    IF Len(s) = 1 THEN s[1]
    ELSE LET m == minOf(Tail(s)) IN IF m < s[1] THEN m ELSE s[1]

RECURSIVE maxOf(_)
maxOf(s) ==
    IF Len(s) = 1 THEN s[1]
    ELSE LET m == maxOf(Tail(s)) IN IF s[1] < m THEN m ELSE s[1]

\* sum over the samples of (time - avg)^2 with avg = total/n, times n^2
SquaredDiffs(s, total, n) ==
    fold_left_plus([k \in 1..Len(s) |-> (n * s[k] - total) * (n * s[k] - total)])

\* the stats value bench returns for the vector `ds`
BenchStats(ds) ==
    LET total == fold_left_plus(ds) IN
    [kind |-> "stats",
     average |-> [num |-> total, den |-> iterations],
     variance |-> [num |-> SquaredDiffs(ds, total, iterations),
                   den |-> iterations * iterations * iterations],
     fastest |-> minOf(ds),
     slowest |-> maxOf(ds)]

(***************************************************************************)
(* statistic<T> (common.hpp 127-177) for T = int and for T a duration with *)
(* a floating-point representation. int is 32 bits wide and size_t 64; a   *)
(* 64-bit word is kept as four 16-bit limbs, the most significant first.   *)
(* Floating-point values are kept as exact fractions num/den, and a square *)
(* root as its radicand.                                                   *)
(***************************************************************************)
Limb == 2^16
IntMax == (2^30 - 1) * 2 + 1
IntMin == 0 - IntMax - 1

Abs(x) == IF x < 0 THEN 0 - x ELSE x

\* the conversion of an int to size_t (modulo 2^64)
ToSizeT(x) ==
    IF x >= 0 THEN <<0, 0, x \div Limb, x % Limb>>
    ELSE <<Limb - 1, Limb - 1, (x \div Limb) + Limb, x % Limb>>

\* the unsigned division of a 64-bit word by n, limb by limb
RECURSIVE DivLimbs(_, _, _)
DivLimbs(w, n, rem) ==
    IF w = <<>> THEN <<>>
    ELSE LET cur == rem * Limb + Head(w)
         IN  <<cur \div n>> \o DivLimbs(Tail(w), n, cur % n)

\* the conversion of a size_t to int: the low 32 bits, in two's complement
ToInt(w) ==
    IF w[3] >= Limb \div 2 THEN (w[3] - Limb) * Limb + w[4] ELSE w[3] * Limb + w[4]

\* line 174 for T = int, `total / items.size()`: the int is converted to
\* size_t, the division is unsigned, the quotient is converted back
IntDivSize(total, n) == ToInt(DivLimbs(ToSizeT(total), n, 0))

\* lines 163-172: largest, smallest and total after the loop
statistic_loop(v) ==
    LET F[k \in 1..Len(v)] ==
            IF k = 1 THEN [largest |-> v[1], smallest |-> v[1], total |-> v[1]]
            ELSE [largest |-> IF F[k - 1].largest < v[k] THEN v[k] ELSE F[k - 1].largest,
                  smallest |-> IF v[k] < F[k - 1].smallest THEN v[k] ELSE F[k - 1].smallest,
                  total |-> F[k - 1].total + v[k]]
    IN  F[Len(v)]

\* the loop of stddev_helper<int>::compute has overflowed the int `variance`
Overflow == 0 - 1

\* lines 130-134 for T = int: the sum of the squared differences, or Overflow
\* when diff * diff or the addition leaves the range of int
variance_int(v, average) ==
    LET V[k \in 0..Len(v)] ==
            IF k = 0 THEN 0
            ELSE IF V[k - 1] = Overflow THEN Overflow
            ELSE LET diff == v[k] - average
                 IN  IF diff # 0 /\ Abs(diff) > IntMax \div Abs(diff) THEN Overflow
                     ELSE IF V[k - 1] > IntMax - diff * diff THEN Overflow
                     ELSE V[k - 1] + diff * diff
    IN  V[Len(v)]

\* line 136 for T = int: std::sqrt of the int, converted back to int
sqrt_int(x) == CHOOSE r \in 0..x : r * r <= x /\ (r + 1) * (r + 1) > x

\* signed overflow is undefined: values a build may leave in stddev
UndefinedInts == {IntMin, 0, 1}

\* stddev_helper<int>::compute: the values it may return
stddev_helper_int(v, average) ==
    IF variance_int(v, average) = Overflow THEN UndefinedInts
    ELSE {sqrt_int(variance_int(v, average))}

\* statistic<int>::statistic: the objects it may construct
statistic_int(v) ==
    LET acc == statistic_loop(v)
        average == IntDivSize(acc.total, Len(v))
    IN  {[kind |-> "statistic", average |-> average, stddev |-> sd,
          largest |-> acc.largest, smallest |-> acc.smallest] :
            sd \in stddev_helper_int(v, average)}

\* stddev_helper<duration<Rep, Period>>::compute, lines 144-151: the square
\* root of the sum of the squared differences from the average total/n
stddev_helper_duration(v, total, n) ==
    [radicand |-> [num |-> SquaredDiffs(v, total, n), den |-> n * n]]

\* statistic<duration<double, Period>>::statistic
statistic_duration(v) ==
    LET acc == statistic_loop(v) IN
    [kind |-> "statistic",
     average |-> [num |-> acc.total, den |-> Len(v)],
     stddev |-> stddev_helper_duration(v, acc.total, Len(v)),
     largest |-> acc.largest, smallest |-> acc.smallest]

(***************************************************************************)
(* gpu::device::get_family (gpu.hpp 412-433). A string is the sequence of  *)
(* its characters.                                                         *)
(***************************************************************************)
gfx == <<"g", "f", "x">>

\* std::string::starts_with
starts_with(str, prefix) ==
    Len(prefix) <= Len(str) /\ SubSeq(str, 1, Len(prefix)) = prefix

\* faulty variant: the test for gfx9 comes before the tests for its
\* sub-families
FamilyRulesGeneralFirst ==
    <<[prefixes |-> {gfx \o <<"1", "2">>}, family |-> "rdna4"],
      [prefixes |-> {gfx \o <<"1", "1">>}, family |-> "rdna3"],
      [prefixes |-> {gfx \o <<"1", "0", "3">>}, family |-> "rdna2"],
      [prefixes |-> {gfx \o <<"1", "0", "1">>}, family |-> "rdna1"],
      [prefixes |-> {gfx \o <<"9">>}, family |-> "gcn5"],
      [prefixes |-> {gfx \o <<"9", "4">>, gfx \o <<"9", "5">>}, family |-> "cdna3"],
      [prefixes |-> {gfx \o <<"9", "0", "a">>}, family |-> "cdna2"],
      [prefixes |-> {gfx \o <<"9", "0", "8">>}, family |-> "cdna1"]>>

\* faulty variant: the test for gfx9 comes before the test for gfx908
FamilyRulesCdna1Shadowed ==
    <<[prefixes |-> {gfx \o <<"1", "2">>}, family |-> "rdna4"],
      [prefixes |-> {gfx \o <<"1", "1">>}, family |-> "rdna3"],
      [prefixes |-> {gfx \o <<"1", "0", "3">>}, family |-> "rdna2"],
      [prefixes |-> {gfx \o <<"1", "0", "1">>}, family |-> "rdna1"],
      [prefixes |-> {gfx \o <<"9", "4">>, gfx \o <<"9", "5">>}, family |-> "cdna3"],
      [prefixes |-> {gfx \o <<"9", "0", "a">>}, family |-> "cdna2"],
      [prefixes |-> {gfx \o <<"9">>}, family |-> "gcn5"],
      [prefixes |-> {gfx \o <<"9", "0", "8">>}, family |-> "cdna1"]>>

\* lines 414-429: the tests of the if-else chain, in its order
FamilyRules ==
    <<[prefixes |-> {gfx \o <<"1", "2">>}, family |-> "rdna4"],
      [prefixes |-> {gfx \o <<"1", "1">>}, family |-> "rdna3"],
      [prefixes |-> {gfx \o <<"1", "0", "3">>}, family |-> "rdna2"],
      [prefixes |-> {gfx \o <<"1", "0", "1">>}, family |-> "rdna1"],
      [prefixes |-> {gfx \o <<"9", "4">>, gfx \o <<"9", "5">>}, family |-> "cdna3"],
      [prefixes |-> {gfx \o <<"9", "0", "a">>}, family |-> "cdna2"],
      [prefixes |-> {gfx \o <<"9", "0", "8">>}, family |-> "cdna1"],
      [prefixes |-> {gfx \o <<"9">>}, family |-> "gcn5"]>>

\* the chain from its k-th test on; line 432 when no test is left
RECURSIVE family_from(_, _)
family_from(k, name) ==
    IF k > Len(FamilyRules) THEN "none"
    ELSE IF \E p \in FamilyRules[k].prefixes : starts_with(name, p)
         THEN FamilyRules[k].family
         ELSE family_from(k + 1, name)

get_family(name) == family_from(1, name)

(***************************************************************************)
(* gpu::get_device_family (gpu.hpp 27-52 and 445-470): the family is       *)
(* selected by the preprocessor from the macros the compiler predefines    *)
(* for the target the device code is built for.                            *)
(***************************************************************************)
\* the name of a macro, as a string: __name__
macro(name) == <<"__">> \o name \o <<"__">>

__HIP_DEVICE_COMPILE__ == macro(<<"HIP_DEVICE_COMPILE">>)

\* the targets of the generations, by their codenames
GFX8 == {gfx \o <<"8", "0", "3">>}
GFX9 ==
    {gfx \o <<"9", "0", c>> : c \in {"0", "2", "4", "6", "8", "a", "c"}}
        \cup {gfx \o <<"9", "4", "2">>, gfx \o <<"9", "5", "0">>}
GFX10 ==
    {gfx \o <<"1", "0", "1", c>> : c \in {"0", "1", "2", "3"}}
        \cup {gfx \o <<"1", "0", "3", c>> : c \in {"0", "1", "2", "3", "4", "5", "6"}}
GFX11 ==
    {gfx \o <<"1", "1", c, d>> : c \in {"0", "5"}, d \in {"0", "1", "2", "3"}}
GFX12 == {gfx \o <<"1", "2", "0", d>> : d \in {"0", "1"}}

\* the targets device code can be compiled for
DeviceTargets == GFX8 \cup GFX9 \cup GFX10 \cup GFX11 \cup GFX12

\* what the tests of lines 27-46 see defined in device code for a target:
\* the macro of the target itself and the macro of its generation
PredefinedMacros(target) ==
    {__HIP_DEVICE_COMPILE__, macro(target)}
        \cup (IF target \in GFX8 THEN {macro(<<"GFX8">>)} ELSE {})
        \cup (IF target \in GFX9 THEN {macro(<<"GFX9">>)} ELSE {})
        \cup (IF target \in GFX10 THEN {macro(<<"GFX10">>)} ELSE {})
        \cup (IF target \in GFX11 THEN {macro(<<"GFX11">>)} ELSE {})
        \cup (IF target \in GFX12 THEN {macro(<<"GFX12">>)} ELSE {})

\* faulty variant: the tests for gfx90a and gfx908 select each other's family
FamilySelectionSwapped ==
    <<[macros |-> {macro(gfx \o <<"9", "4", "2">>), macro(gfx \o <<"9", "5", "0">>),
                   macro(<<"gfx9_4_generic">>)},
       defines |-> "GPU_FAMILY_CDNA3"],
      [macros |-> {macro(gfx \o <<"9", "0", "8">>)}, defines |-> "GPU_FAMILY_CDNA2"],
      [macros |-> {macro(gfx \o <<"9", "0", "a">>)}, defines |-> "GPU_FAMILY_CDNA1"],
      [macros |-> {macro(gfx \o <<"9">>)}, defines |-> "GPU_FAMILY_GCN5"]>>

\* lines 27-48: the #if / #elif chain, in its order
FamilySelection ==
    <<[macros |-> {macro(gfx \o <<"9", "4", "2">>), macro(gfx \o <<"9", "5", "0">>),
                   macro(<<"gfx9_4_generic">>)},
       defines |-> "GPU_FAMILY_CDNA3"],
      [macros |-> {macro(gfx \o <<"9", "0", "a">>)}, defines |-> "GPU_FAMILY_CDNA2"],
      [macros |-> {macro(gfx \o <<"9", "0", "8">>)}, defines |-> "GPU_FAMILY_CDNA1"],
      [macros |-> {macro(gfx \o <<"9", "0", c>>) : c \in {"0", "2", "4", "6", "c"}}
                      \cup {macro(<<"gfx9_generic">>)},
       defines |-> "GPU_FAMILY_GCN5"],
      [macros |-> {macro(<<"GFX12">>), macro(<<"gfx12_generic">>)},
       defines |-> "GPU_FAMILY_RDNA4"],
      [macros |-> {macro(<<"GFX11">>), macro(<<"gfx11_generic">>)},
       defines |-> "GPU_FAMILY_RDNA3"],
      [macros |-> {macro(gfx \o <<"1", "0", "3", c>>) :
                        c \in {"0", "1", "2", "3", "4", "5", "6"}}
                      \cup {macro(<<"gfx10_3_generic">>)},
       defines |-> "GPU_FAMILY_RDNA2"],
      [macros |-> {macro(gfx \o <<"1", "0", "1", c>>) : c \in {"0", "1", "2", "3"}}
                      \cup {macro(<<"gfx10_1_generic">>)},
       defines |-> "GPU_FAMILY_RDNA1"],
      [macros |-> {macro(<<"SPIRV">>)}, defines |-> "GPU_FAMILY_SPIRV"]>>

\* the chain from its k-th test on; lines 49-51 when no test is left: the
\* compilation of device code fails, that of host code defines nothing
RECURSIVE selection_from(_, _)
selection_from(k, defined) ==
    IF k > Len(FamilySelection)
    THEN IF __HIP_DEVICE_COMPILE__ \in defined THEN "#error" ELSE "nothing"
    ELSE IF FamilySelection[k].macros \cap defined # {}
         THEN FamilySelection[k].defines
         ELSE selection_from(k + 1, defined)

GPU_FAMILY(target) == selection_from(1, PredefinedMacros(target))

\* lines 446-470, given the GPU_FAMILY_ macro that is defined
get_device_family(selected) ==
    CASE selected = "GPU_FAMILY_CDNA3" -> "cdna3"
      [] selected = "GPU_FAMILY_CDNA2" -> "cdna2"
      [] selected = "GPU_FAMILY_CDNA1" -> "cdna1"
      [] selected = "GPU_FAMILY_GCN5" -> "gcn5"
      [] selected = "GPU_FAMILY_RDNA4" -> "rdna4"
      [] selected = "GPU_FAMILY_RDNA3" -> "rdna3"
      [] selected = "GPU_FAMILY_RDNA2" -> "rdna2"
      [] selected = "GPU_FAMILY_RDNA1" -> "rdna1"
      [] selected = "GPU_FAMILY_SPIRV" -> "none"
      [] OTHER -> "none"

(***************************************************************************)
(* The loops of bench: where the thread goes when a loop is entered with   *)
(* counter k (1-based).                                                    *)
(***************************************************************************)
\* faulty variant: the loop that reads the samples stops one turn early
ElapsedLoopShort(k) == IF k < iterations THEN <<"elapsed", k>> ELSE <<"aggregate", k>>

\* third loop, lines 310-313, then the aggregation
ElapsedLoop(k) == IF k <= iterations THEN <<"elapsed", k>> ELSE <<"aggregate", k>>
\* faulty variant: the loop that measures stops one turn early
MeasureLoopShort(k) == IF k < iterations THEN <<"m_flush", k>> ELSE ElapsedLoop(1)
\* second loop, lines 299-306
MeasureLoop(k) == IF k <= iterations THEN <<"m_flush", k>> ELSE ElapsedLoop(1)
\* first loop, lines 292-297
WarmupLoop(k) == IF k <= warmups THEN <<"w_flush", k>> ELSE MeasureLoop(1)

Phase == IF pc \in {"w_flush", "w_sync1", "w_work", "w_sync2"} THEN "warmup"
         ELSE IF pc = "elapsed" THEN "elapsed" ELSE "measure"

\* the history of a runtime call: what was called, in which loop and turn,
\* and the status it returned
Issued(name, st) ==
    Append(calls, [call |-> name, phase |-> Phase, trial |-> i, status |-> st])

\* an exception leaves bench: nothing more is issued, nothing is returned, and
\* the locals of bench (the events, the samples) are destroyed by the unwinding
Throw(e) ==
    /\ pc' = "thrown"
    /\ err' = e
    /\ i' = 0
    /\ nKernels' = 0
    /\ events' = <<>>
    /\ durations' = <<>>
    /\ UNCHANGED result

Goto(next) ==
    /\ pc' = next
    /\ UNCHANGED <<i, nKernels, events, durations, result, err>>

GotoLoop(target) ==
    /\ pc' = target[1]
    /\ i' = target[2]
    /\ UNCHANGED <<nKernels, events, durations, result, err>>

(***************************************************************************)
(* gpu::stream and gpu::device operations as the thread issues them.       *)
(***************************************************************************)
\* gpu::stream::memset: hipMemsetAsync(d_ptr, ch, count) names no stream, so
\* the operation is enqueued on the default (null) stream
stream_memset(next) ==
    \E st \in {hipSuccess} \cup HipErrors :
        /\ calls' = Issued("memset", st)
        /\ IF st = hipSuccess
           THEN /\ nullQ' = Append(nullQ, [op |-> "memset", phase |-> Phase, trial |-> i])
                /\ Goto(next)
           ELSE /\ Throw(gpu_error(st))
                /\ UNCHANGED nullQ
        /\ UNCHANGED <<streamQ, clock, asyncErr, benchFrame>>

\* faulty variant: only the executor's stream is waited for, as stream.sync() would
StreamDrained == streamQ = <<>>

\* hipDeviceSynchronize returns once every stream of the device has drained
Drained == nullQ = <<>> /\ streamQ = <<>>

\* faulty variant: the wait does not report the deferred error of a kernel
device_sync_unreported(target) ==
    /\ \/ \E st \in HipErrors :
            /\ calls' = Issued("sync", st)
            /\ Throw(gpu_error(st))
       \/ /\ Drained
          /\ calls' = Issued("sync", hipSuccess)
          /\ GotoLoop(target)
    /\ UNCHANGED <<deviceVars, benchFrame>>

\* gpu::device::sync: make_active, then hipDeviceSynchronize, which blocks and
\* reports a deferred error of an operation executed before it
device_sync(target) ==
    /\ \/ \E st \in HipErrors :
            /\ calls' = Issued("sync", st)
            /\ Throw(gpu_error(st))
       \/ /\ Drained
          /\ \E st \in (IF asyncErr # hipSuccess THEN {asyncErr}
                         ELSE {hipSuccess} \cup HipErrors) :
                /\ calls' = Issued("sync", st)
                /\ IF st = hipSuccess THEN GotoLoop(target) ELSE Throw(gpu_error(st))
    /\ UNCHANGED <<deviceVars, benchFrame>>

\* faulty variant: the status of hipEventRecord is not looked at
stream_record_unchecked(which, next) ==
    \E st \in {hipSuccess} \cup HipErrors :
        /\ calls' = Issued(which, st)
        /\ streamQ' = IF st = hipSuccess
                      THEN Append(streamQ, [op |-> which, phase |-> Phase, trial |-> i])
                      ELSE streamQ
        /\ Goto(next)
        /\ UNCHANGED <<nullQ, clock, asyncErr, benchFrame>>

\* gpu::stream::record: hipEventRecord(event.handle, this->handle)
stream_record(which, next) ==
    \E st \in {hipSuccess} \cup HipErrors :
        /\ calls' = Issued(which, st)
        /\ IF st = hipSuccess
           THEN /\ streamQ' = Append(streamQ, [op |-> which, phase |-> Phase, trial |-> i])
                /\ Goto(next)
           ELSE /\ Throw(gpu_error(st))
                /\ UNCHANGED streamQ
        /\ UNCHANGED <<nullQ, clock, asyncErr, benchFrame>>

Kernels(n) == [k \in 1..n |-> [op |-> "kernel", phase |-> Phase, trial |-> i]]

\* f(this->stream): the workload launches its kernels on the stream one by
\* one (gpu::stream::launch); a launch that reports an error throws
workload(next) ==
    /\ \/ /\ calls' = Issued("workload", hipSuccess)
          /\ streamQ' = streamQ \o Kernels(nKernels)
          /\ Goto(next)
       \/ \E done \in 0..(nKernels - 1), st \in HipErrors :
            /\ calls' = Issued("workload", st)
            /\ streamQ' = streamQ \o Kernels(done)
            /\ Throw(gpu_error(st))
    /\ UNCHANGED <<nullQ, clock, asyncErr, benchFrame>>

(***************************************************************************)
(* benchmark::executor::bench, statement by statement.                     *)
(***************************************************************************)
FreshEvents == [k \in 1..iterations |-> [start |-> NoTime, stop |-> NoTime]]

\* line 290: the caller calls bench(f); the vector of event pairs is created
\* (gpu::event::event, hipEventCreate may fail)
BenchBegin ==
    /\ pc = "idle"
    /\ durations' = <<>>
    /\ result' = NoStats
    /\ \E n \in 0..MaxWorkOps, st \in {hipSuccess} \cup HipErrors :
        /\ calls' = <<[call |-> "event", phase |-> "begin", trial |-> 0, status |-> st]>>
        /\ IF st = hipSuccess
           THEN /\ nKernels' = n
                /\ events' = FreshEvents
                /\ pc' = WarmupLoop(1)[1]
                /\ i' = WarmupLoop(1)[2]
                /\ err' = NoError
           ELSE /\ pc' = "thrown"
                /\ err' = gpu_error(st)
                /\ nKernels' = 0
                /\ events' = <<>>
                /\ i' = 0
    \* the device is idle between two calls; its clock is counted from here
    /\ clock' = 0
    /\ UNCHANGED <<nullQ, streamQ, asyncErr, benchFrame>>

\* faulty variant: the warmup trial does not synchronize after its flush
WarmupFlushNoSync == pc = "w_flush" /\ stream_memset("w_work")

\* line 293
WarmupFlush == pc = "w_flush" /\ stream_memset("w_sync1")
\* line 294
WarmupSync1 == pc = "w_sync1" /\ device_sync(<<"w_work", i>>)
\* line 295
WarmupWork == pc = "w_work" /\ workload("w_sync2")
\* line 296, and the loop's ++i and test
WarmupSync2 == pc = "w_sync2" /\ device_sync(WarmupLoop(i + 1))

\* line 300
MeasureFlush == pc = "m_flush" /\ stream_memset("m_sync1")
\* line 301
MeasureSync1 == pc = "m_sync1" /\ device_sync(<<"m_start", i>>)
\* line 302
MeasureRecordStart == pc = "m_start" /\ stream_record("start", "m_work")
\* line 303
MeasureWork == pc = "m_work" /\ workload("m_stop")
\* line 304
MeasureRecordStop == pc = "m_stop" /\ stream_record("stop", "m_sync2")
\* faulty variant: the trial ends without waiting for the device
MeasureSync2NoWait ==
    /\ pc = "m_sync2"
    /\ calls' = Issued("sync", hipSuccess)
    /\ GotoLoop(MeasureLoop(i + 1))
    /\ UNCHANGED <<deviceVars, benchFrame>>

\* line 305, and the loop's step and test
MeasureSync2 == pc = "m_sync2" /\ device_sync(MeasureLoop(i + 1))

\* gpu::event::elapsed: hipEventElapsedTime reports an event that was never
\* recorded, or has not completed, as an error
ElapsedStatus(start, stop) ==
    IF start = NoTime \/ stop = NoTime THEN {"hipErrorNotReady"}
    ELSE {hipSuccess} \cup HipErrors

\* faulty variant: the events are given to hipEventElapsedTime in the wrong order
elapsed_swapped(start, stop) == start - stop

\* the value of elapsed(start, stop) brought to benchmark::duration
elapsed(start, stop) == stop - start

\* lines 310-313: one turn of the loop that reads the samples
Elapsed ==
    /\ pc = "elapsed"
    /\ \E st \in ElapsedStatus(events[i].start, events[i].stop) :
        /\ calls' = Issued("elapsed", st)
        /\ IF st = hipSuccess
           THEN /\ durations' = Append(durations, elapsed(events[i].start, events[i].stop))
                /\ pc' = ElapsedLoop(i + 1)[1]
                /\ i' = ElapsedLoop(i + 1)[2]
                /\ UNCHANGED <<nKernels, events, result, err>>
           ELSE Throw(gpu_error(st))
    /\ UNCHANGED <<deviceVars, benchFrame>>

\* lines 315-335: aggregate and return (the events and the samples of the
\* call stay readable as its history until the next call begins)
Aggregate ==
    /\ pc = "aggregate"
    /\ result' = BenchStats(durations)
    /\ pc' = "idle"
    /\ UNCHANGED <<i, nKernels, events, durations, err>>
    /\ UNCHANGED <<deviceVars, benchFrame, calls>>

(***************************************************************************)
(* The device: it executes the head of either stream at any time. The      *)
(* executor's stream is created non_blocking, so it is not ordered with    *)
(* the null stream.                                                        *)
(***************************************************************************)
SetStamp(ev, op, t) == [ev EXCEPT ![op.trial] = [@ EXCEPT ![op.op] = t]]

DeviceExecNull ==
    /\ nullQ # <<>>
    /\ nullQ' = Tail(nullQ)
    /\ clock' = clock + 1
    /\ UNCHANGED <<streamQ, asyncErr, threadVars, benchFrame, calls>>

DeviceExecRecord ==
    /\ streamQ # <<>>
    /\ Head(streamQ).op \in {"start", "stop"}
    /\ streamQ' = Tail(streamQ)
    /\ events' = IF Head(streamQ).trial \in DOMAIN events
                 THEN SetStamp(events, Head(streamQ), clock) ELSE events
    /\ UNCHANGED <<pc, i, nKernels, durations, result, err>>
    /\ UNCHANGED <<nullQ, clock, asyncErr, benchFrame, calls>>

DeviceExecKernel ==
    /\ streamQ # <<>>
    /\ Head(streamQ).op = "kernel"
    /\ streamQ' = Tail(streamQ)
    /\ \E d \in KernelTicks : clock' = clock + d
    /\ \/ UNCHANGED asyncErr
       \/ asyncErr = hipSuccess /\ asyncErr' = "hipErrorLaunchFailure"
    /\ UNCHANGED <<nullQ, threadVars, benchFrame, calls>>

(***************************************************************************)
(* benchmark::executor: constructor and destructor (the governor of the    *)
(* device's performance level).                                            *)
(***************************************************************************)
RsmiStatuses == {RSMI_STATUS_SUCCESS} \cup RsmiErrors

\* a device index / agent handle that has no value
NoDevice == 0 - 1

Addresses == [domain : Domains, bus : Buses, device : Slots, function : Functions]

\* the enumerations of an API: up to MaxDevices devices at distinct addresses
Hosts ==
    UNION {{s \in [1..n -> Addresses] : \A x, y \in 1..n : x # y => s[x] # s[y]} :
           n \in 0..MaxDevices}

\* the bitwise operators of a signed integer in two's complement (\div
\* rounds down, % is never negative)
BitNot(x) == (0 - x) - 1

RECURSIVE BitOr(_, _)
BitOr(x, y) ==
    IF x = 0 THEN y
    ELSE IF y = 0 THEN x
    ELSE IF x = BitNot(0) \/ y = BitNot(0) THEN BitNot(0)
    ELSE (IF x % 2 = 1 \/ y % 2 = 1 THEN 1 ELSE 0) + 2 * BitOr(x \div 2, y \div 2)

RECURSIVE BitAnd(_, _)
BitAnd(x, y) ==
    IF x = 0 \/ y = 0 THEN 0
    ELSE IF x = BitNot(0) THEN y
    ELSE IF y = BitNot(0) THEN x
    ELSE (x % 2) * (y % 2) + 2 * BitAnd(x \div 2, y \div 2)

RECURSIVE BitXor(_, _)
BitXor(x, y) ==
    IF x = 0 THEN y
    ELSE IF y = 0 THEN x
    ELSE IF x = BitNot(0) THEN BitNot(y)
    ELSE IF y = BitNot(0) THEN BitNot(x)
    ELSE ((x + y) % 2) + 2 * BitXor(x \div 2, y \div 2)

\* pci_address::rsmi_id(): domain<<13 | bus<<8 | device<<3 | function
rsmi_id(a) ==
    BitOr(BitOr(a.domain * 2^13, a.bus * 2^8), BitOr(a.device * 2^3, a.function))

\* rsmi_dev_pci_id_get(i, &id): the library reports the address of its device
\* i in the packed form rsmi_id() is written against
rsmi_dev_pci_id_get(k) == rsmi_id(enumeration[k + 1])

\* lines 231-238: the loop over the library's devices returns the first index
\* whose id equals hip_pci_id; NoDevice stands for leaving the loop
RECURSIVE rsmi_dev_lookup(_, _, _)
rsmi_dev_lookup(k, num_devices, hip_pci_id) ==
    IF k >= num_devices THEN NoDevice
    ELSE IF rsmi_dev_pci_id_get(k) = hip_pci_id THEN k
    ELSE rsmi_dev_lookup(k + 1, num_devices, hip_pci_id)

\* HSA_AMD_AGENT_INFO_BDFID of an agent at address a
hsa_bdfid(a) == a.bus * 2^8 + (a.device % 2^5) * 2^3 + (a.function % 2^3)

\* gpu.hpp lines 368-373: the address the callback builds from the agent info
hsa_addr(pci_domain_id, pci_bfd_id) ==
    [domain |-> pci_domain_id % 2^16,
     bus |-> (pci_bfd_id \div 2^8) % 2^8,
     device |-> (pci_bfd_id \div 2^3) % 2^5,
     function |-> pci_bfd_id % 2^3]

\* gpu.hpp lines 357-382: hsa_iterate_agents stops at the first agent whose
\* address equals the device's; the agent handle is its place in `agents`
RECURSIVE hsa_lookup(_, _)
hsa_lookup(k, target) ==
    IF k >= Len(agents) THEN NoDevice
    ELSE IF hsa_addr(agents[k + 1].domain, hsa_bdfid(agents[k + 1])) = target THEN k
    ELSE hsa_lookup(k + 1, target)

\* gpu::error(hsa_status_t)
hsa_error(status) ==
    [kind |-> "gpu::error", status |-> status, what |-> <<"hsa error", status>>]

\* gpu::device::device, gpu.hpp lines 337-395: the properties are read and
\* the HSA agent of the device is looked up by its bus address
DeviceConstruct ==
    /\ pc = "boot"
    /\ LET found == hsa_lookup(0, dev.pci_address)
           visited == IF found = NoDevice THEN Len(agents) ELSE found + 1
       IN  \/ \E st \in HipErrors :
                /\ pc' = "dev_failed" /\ err' = gpu_error(st) /\ UNCHANGED dev
           \* hsa_agent_get_info fails in the callback: the iteration stops
           \* with a status that is not HSA_STATUS_INFO_BREAK
           \/ /\ visited >= 1
              /\ pc' = "dev_failed" /\ err' = hsa_map_error(dev.hip_ordinal)
              /\ UNCHANGED dev
           \/ /\ found = NoDevice
              /\ pc' = "dev_failed" /\ err' = hsa_map_error(dev.hip_ordinal)
              /\ UNCHANGED dev
           \/ /\ found # NoDevice
              /\ pc' = "dev_failed" /\ err' = hsa_error("HSA_STATUS_ERROR")
              /\ UNCHANGED dev
           \/ /\ found # NoDevice
              /\ pc' = "start" /\ dev' = [dev EXCEPT !.hsa_agent = found]
              /\ UNCHANGED err
    /\ UNCHANGED <<i, nKernels, events, durations, result>>
    /\ UNCHANGED <<deviceVars, smiVars, hostVars, raceVars, rsmi_dev, held, rsmiCalls, calls>>
    /\ UNCHANGED <<statVars, classVars, exitVars, unitVars>>

\* rsmi_dev_perf_level_get(dev, &out): out is written on success only
perf_level_get(status, level, out) == IF status = RSMI_STATUS_SUCCESS THEN level ELSE out

\* rsmi_dev_perf_level_set_v1(dev, level): the device's level afterwards
perf_level_set(status, level, current) == IF status = RSMI_STATUS_SUCCESS THEN level ELSE current

GetCall(during, status) == [call |-> "get", during |-> during, status |-> status]
SetCall(during, level, status) ==
    [call |-> "set", during |-> during, level |-> level, status |-> status]

\* line 249: the constructor's query of the current level
CtorGet(status) == <<GetCall("ctor", status)>>

\* faulty variant: the constructor asks for stable peak a second time
CtorSetTwice(orig, status) ==
    <<SetCall("ctor", RSMI_DEV_PERF_LEVEL_STABLE_PEAK, status),
      SetCall("ctor", RSMI_DEV_PERF_LEVEL_STABLE_PEAK, status)>>

\* line 256: the constructor sets stable peak, whatever level it has read
CtorSet(orig, status) == <<SetCall("ctor", RSMI_DEV_PERF_LEVEL_STABLE_PEAK, status)>>

\* faulty variant: the constructor ignores the statuses without a word
CtorNoWarnings(gst, sst) == <<>>

\* lines 250-252 and 257-261: the warnings of the constructor
CtorWarnings(gst, sst) ==
    (IF gst # RSMI_STATUS_SUCCESS
     THEN <<"warning: failed to query current perf level">> ELSE <<>>)
    \o (IF sst = RSMI_STATUS_PERMISSION
        THEN <<"warning: could not set perf level: insufficient permissions">>
        ELSE IF sst # RSMI_STATUS_SUCCESS
             THEN <<"warning: failed to set perf level">> ELSE <<>>)

RsmiCall(name, arg, st) == [call |-> name, arg |-> arg, status |-> st]

\* the calls of a constructor that got as far as asking for the id of
\* `queried` devices, the last of these calls returning `last`
ResolverCalls(queried, last) ==
    <<RsmiCall("rsmi_init", NoDevice, RSMI_STATUS_SUCCESS),
      RsmiCall("rsmi_num_monitor_devices", NoDevice, RSMI_STATUS_SUCCESS)>>
    \o [k \in 1..queried |->
          RsmiCall("rsmi_dev_pci_id_get", k - 1,
                   IF k = queried THEN last ELSE RSMI_STATUS_SUCCESS)]

\* lines 206 and 208: the members that own a runtime resource
Members == {"stream", "cache_buffer"}

\* faulty variant: the members of an executor that is given up keep their
\* resources
MembersLeaked(owned) == owned

\* gpu::stream::~stream and gpu::ptr::~ptr (gpu.hpp 186-190, 105-109): the
\* members are destroyed, each releasing what it owns
MembersDestroyed(owned) == {}

\* an exception leaves the constructor: the members constructed so far are
\* destroyed, the destructor of the executor itself does not run
CtorThrow(e, lib, owned) ==
    /\ pc' = "ctor_failed"
    /\ err' = e
    /\ rsmiCalls' = rsmiCalls \o lib
    /\ held' = MembersDestroyed(owned)
    /\ UNCHANGED <<perf, orig_perf_level, smiLog, warnings, rsmi_dev>>

\* lines 213-262
Construct ==
    /\ pc = "start"
    /\ levelBefore' = perf
    /\ LET hip_pci_id == rsmi_id(dev.pci_address)
           num_devices == Len(enumeration)
           found == rsmi_dev_lookup(0, num_devices, hip_pci_id)
           queried == IF found = NoDevice THEN num_devices ELSE found + 1
       IN  \* lines 215-217: create_stream or alloc fails
           \/ \E st \in HipErrors, owned \in {{}, {"stream"}} :
                CtorThrow(gpu_error(st), <<>>, owned)
           \* line 219
           \/ \E st \in RsmiErrors :
                CtorThrow(rsmi_error(st), <<RsmiCall("rsmi_init", NoDevice, st)>>, Members)
           \* line 230
           \/ \E st \in RsmiErrors :
                CtorThrow(rsmi_error(st),
                          <<RsmiCall("rsmi_init", NoDevice, RSMI_STATUS_SUCCESS),
                            RsmiCall("rsmi_num_monitor_devices", NoDevice, st)>>,
                          Members)
           \* line 233
           \/ \E n \in 1..queried, st \in RsmiErrors :
                CtorThrow(rsmi_error(st), ResolverCalls(n, st), Members)
           \* line 240
           \/ /\ found = NoDevice
              /\ CtorThrow(map_error(dev.hip_ordinal),
                           ResolverCalls(queried, RSMI_STATUS_SUCCESS), Members)
           \* line 244
           \/ /\ found # NoDevice
              /\ \E st \in RsmiErrors :
                    CtorThrow(rsmi_error(st),
                              Append(ResolverCalls(queried, RSMI_STATUS_SUCCESS),
                                     RsmiCall("rsmi_dev_name_get", found, st)),
                              Members)
           \* lines 249-261
           \/ /\ found # NoDevice
              /\ \E gst \in RsmiStatuses, sst \in RsmiStatuses :
                    LET orig == perf_level_get(gst, perf, orig_perf_level)
                        sets == CtorSet(orig, sst)
                    IN  /\ orig_perf_level' = orig
                        /\ smiLog' = smiLog \o CtorGet(gst) \o sets
                        /\ perf' = IF sets # <<>>
                                   THEN perf_level_set(sst, sets[1].level, perf) ELSE perf
                        /\ warnings' = warnings \o CtorWarnings(gst, sst)
              /\ rsmi_dev' = found
              /\ rsmiCalls' = Append(ResolverCalls(queried, RSMI_STATUS_SUCCESS),
                                     RsmiCall("rsmi_dev_name_get", found, RSMI_STATUS_SUCCESS))
              /\ held' = Members
              /\ pc' = "idle"
              /\ UNCHANGED err
    /\ UNCHANGED <<i, nKernels, events, durations, result>>
    /\ UNCHANGED <<deviceVars, hostVars, raceVars, dev, calls>>
    /\ UNCHANGED <<statVars, classVars, exitVars, unitVars>>

\* faulty variant: the destructor does not test the original level
OriginalAssumedKnown(orig) == TRUE

\* line 271: the destructor looks at the level only if the original is known
OriginalKnown(orig) == orig # RSMI_DEV_PERF_LEVEL_UNKNOWN

\* faulty variant: the comparison of line 274 is inverted
RestoreNeededInverted(status, current, orig) ==
    status = RSMI_STATUS_SUCCESS /\ current = orig

\* faulty variant: the destructor never restores the level
RestoreNever(status, current, orig) == FALSE

\* faulty variant: the level is restored without comparing it
RestoreAlways(status, current, orig) == status = RSMI_STATUS_SUCCESS

\* line 274: restore only a level that differs from the original
RestoreNeeded(status, current, orig) == status = RSMI_STATUS_SUCCESS /\ current # orig

\* lines 276-278: the warning of the destructor
DtorWarnings(doSet, sst) ==
    IF doSet /\ sst # RSMI_STATUS_SUCCESS
    THEN <<"warning: failed to reset current perf level">> ELSE <<>>

\* line 283, assert(rsmi_shut_down() == RSMI_STATUS_SUCCESS): what a build
\* makes of it. With NDEBUG the expression is not evaluated and no call is
\* made; otherwise the call is made and a failure aborts the process.
ShutdownOutcomes == {"NDEBUG"} \cup RsmiStatuses

\* the statuses a call can return if it is made; a call that is not made
\* has none to look at
CallStatuses(made) == IF made THEN RsmiStatuses ELSE {RSMI_STATUS_SUCCESS}

\* lines 270-284, then the members; the executor is destroyed when the
\* caller's scope is left, normally or by an exception thrown by bench
Destroy ==
    /\ pc \in {"idle", "thrown"}
    /\ \E gst \in CallStatuses(OriginalKnown(orig_perf_level)) :
       \E sst \in CallStatuses(OriginalKnown(orig_perf_level)
                                /\ RestoreNeeded(gst, perf, orig_perf_level)) :
        LET doGet == OriginalKnown(orig_perf_level)
            doSet == doGet /\ RestoreNeeded(gst, perf, orig_perf_level)
        IN  /\ smiLog' = smiLog
                    \o (IF doGet THEN <<GetCall("dtor", gst)>> ELSE <<>>)
                    \o (IF doSet THEN <<SetCall("dtor", orig_perf_level, sst)>> ELSE <<>>)
            /\ perf' = IF doSet THEN perf_level_set(sst, orig_perf_level, perf) ELSE perf
            /\ warnings' = warnings \o DtorWarnings(doSet, sst)
    /\ \E sd \in ShutdownOutcomes :
        /\ rsmiCalls' = IF sd = "NDEBUG" THEN rsmiCalls
                        ELSE Append(rsmiCalls, RsmiCall("rsmi_shut_down", NoDevice, sd))
        /\ IF sd \in RsmiErrors
           THEN pc' = "aborted" /\ UNCHANGED held
           ELSE pc' = "exit" /\ held' = MembersDestroyed(held)
    \* nothing of the bench calls outlives the executor but what the caller
    \* received: the statistics, or the exception
    /\ i' = 0
    /\ nKernels' = 0
    /\ events' = <<>>
    /\ durations' = <<>>
    /\ calls' = <<>>
    /\ UNCHANGED <<result, err>>
    /\ UNCHANGED <<orig_perf_level, levelBefore, deviceVars, hostVars, raceVars, dev, rsmi_dev>>
    /\ UNCHANGED <<statVars, classVars, exitVars, unitVars>>

(***************************************************************************)
(* The end of main (memory.hip 93-114 and 171-230): the try block is left  *)
(* normally, or by an exception, which a handler reports.                  *)
(***************************************************************************)
\* std::cerr << "caught exception: " << e.what() << "\n"
WhatLine(e) == [line |-> "caught exception", what |-> e.what]

\* std::cerr << e.trace << "\n"
TraceLine(e) == [line |-> "trace", what |-> e.what]

\* the handler that catches e: the one for gpu::error (lines 106-109), else
\* the one for std::exception (lines 110-112)
Handler(e) ==
    IF e.kind = "gpu::error" THEN <<WhatLine(e), TraceLine(e)>> ELSE <<WhatLine(e)>>

\* the executor is gone: main returns, or the handler of the exception that
\* left the try block writes its report and calls std::exit(1)
MainExit ==
    /\ pc \in {"exit", "ctor_failed"}
    /\ pc' = "exited"
    /\ IF err = NoError
       THEN exit_status' = 0 /\ UNCHANGED cerr
       ELSE exit_status' = 1 /\ cerr' = Handler(err)
    /\ UNCHANGED <<i, nKernels, events, durations, result, err>>
    /\ UNCHANGED <<deviceVars, smiVars, hostVars, raceVars, execVars, calls>>
    /\ UNCHANGED <<statVars, classVars, unitVars>>

(***************************************************************************)
(* Two executors on one device (two processes, or two objects of one       *)
(* process): each runs the telemetry calls of its constructor (lines       *)
(* 249-261) and of its destructor (lines 270-280) one call at a time, and  *)
(* the calls of the two interleave. The device's level, perf, is shared.   *)
(***************************************************************************)
Governors == {1, 2}

\* the local current_level of the destructor before the library wrote it
NoLevel == "unread"

\* an executor that has not been constructed yet
Unborn ==
    [at |-> "unborn", orig_perf_level |-> RSMI_DEV_PERF_LEVEL_UNKNOWN,
     current_level |-> NoLevel, failed |-> FALSE]

\* the executor exists: its construction has begun, its destruction has not
\* ended
InLifetime(g) == governors[g].at \notin {"unborn", "gone"}

\* line 249
GovernorCtorGet ==
    /\ \E g \in Governors, st \in RsmiStatuses :
        /\ governors[g].at = "unborn"
        /\ governors' =
              [governors EXCEPT
                 ![g].at = "read",
                 ![g].orig_perf_level = perf_level_get(st, perf, @),
                 ![g].failed = @ \/ st # RSMI_STATUS_SUCCESS]
        /\ overlapped' = (overlapped \/ \E h \in Governors \ {g} : InLifetime(h))
    /\ UNCHANGED <<perf, orig_perf_level, smiLog, warnings, levelBefore>>
    /\ UNCHANGED <<threadVars, deviceVars, hostVars, execVars, calls>>
    /\ UNCHANGED <<statVars, classVars, exitVars, unitVars>>

\* line 256
GovernorCtorSet ==
    /\ \E g \in Governors, st \in RsmiStatuses :
        /\ governors[g].at = "read"
        /\ LET sets == CtorSet(governors[g].orig_perf_level, st)
           IN  perf' = IF sets # <<>> THEN perf_level_set(st, sets[1].level, perf) ELSE perf
        /\ governors' =
              [governors EXCEPT
                 ![g].at = "pinned",
                 ![g].failed = @ \/ st # RSMI_STATUS_SUCCESS]
    /\ UNCHANGED <<overlapped, orig_perf_level, smiLog, warnings, levelBefore>>
    /\ UNCHANGED <<threadVars, deviceVars, hostVars, execVars, calls>>
    /\ UNCHANGED <<statVars, classVars, exitVars, unitVars>>

\* lines 271-274: the destructor re-reads the level if the original is known,
\* and goes on to the set call if the level read differs from it
GovernorDtorGet ==
    /\ \E g \in Governors :
        /\ governors[g].at = "pinned"
        /\ \E st \in CallStatuses(OriginalKnown(governors[g].orig_perf_level)) :
            LET known == OriginalKnown(governors[g].orig_perf_level)
                current == IF known THEN perf_level_get(st, perf, NoLevel) ELSE NoLevel
                doSet == known /\ RestoreNeeded(st, current, governors[g].orig_perf_level)
            IN  governors' =
                  [governors EXCEPT
                     ![g].at = IF doSet THEN "reread" ELSE "gone",
                     ![g].current_level = current,
                     ![g].failed = @ \/ st # RSMI_STATUS_SUCCESS]
    /\ UNCHANGED <<overlapped, smiVars>>
    /\ UNCHANGED <<threadVars, deviceVars, hostVars, execVars, calls>>
    /\ UNCHANGED <<statVars, classVars, exitVars, unitVars>>

\* line 275
GovernorDtorSet ==
    /\ \E g \in Governors, st \in RsmiStatuses :
        /\ governors[g].at = "reread"
        /\ perf' = perf_level_set(st, governors[g].orig_perf_level, perf)
        /\ governors' =
              [governors EXCEPT
                 ![g].at = "gone",
                 ![g].failed = @ \/ st # RSMI_STATUS_SUCCESS]
    /\ UNCHANGED <<overlapped, orig_perf_level, smiLog, warnings, levelBefore>>
    /\ UNCHANGED <<threadVars, deviceVars, hostVars, execVars, calls>>
    /\ UNCHANGED <<statVars, classVars, exitVars, unitVars>>

(***************************************************************************)
(* The specification.                                                      *)
(***************************************************************************)
DefaultAddress == [domain |-> 0, bus |-> 32, device |-> 0, function |-> 0]
OtherAddress == [domain |-> 0, bus |-> 0, device |-> 0, function |-> 0]

\* the state of the harness and of the device before anything of it runs
Fresh ==
    /\ i = 0
    /\ nKernels = 0
    /\ events = <<>>
    /\ durations = <<>>
    /\ result = NoStats
    /\ err = NoError
    /\ nullQ = <<>>
    /\ streamQ = <<>>
    /\ clock = 0
    /\ asyncErr = hipSuccess
    /\ orig_perf_level = RSMI_DEV_PERF_LEVEL_UNKNOWN
    /\ calls = <<>>
    /\ smiLog = <<>>
    /\ warnings = <<>>
    /\ rsmi_dev = NoDevice
    /\ held = {}
    /\ rsmiCalls = <<>>
    /\ exit_status = NoExit
    /\ cerr = <<>>
    /\ governors = [g \in Governors |-> Unborn]
    /\ overlapped = FALSE

\* no statistic<T> has been asked for
NoSamples ==
    /\ item_type = "none"
    /\ items = <<>>
    /\ stat = NoStats

\* no device has been classified and no device code runs
NoCodename ==
    /\ arch_name = <<>>
    /\ family = "unset"
    /\ build_target = NoTarget
    /\ device_family = "unset"

\* no resource wrapper exists
NoObjects ==
    /\ objects = <<>>
    /\ acquired = {}
    /\ releases = <<>>
    /\ last_op = NoOp

\* no cache sizes have been asked for
NoCaches ==
    /\ cache_size = <<>>
    /\ flush_size = NoSize

\* no family_set expression is evaluated
NoSets ==
    /\ fs_a = 0
    /\ fs_b = 0
    /\ fs_mutable = FALSE
    /\ fs_expr = NoExpression
    /\ fs_value = 0

\* the parts of the library that main does not use on its own
NoInput ==
    /\ NoSamples
    /\ NoCodename
    /\ NoObjects
    /\ NoCaches
    /\ NoSets

\* main is entered: gpu::default_device (device 0) has been constructed; the
\* telemetry library monitors it as its second device, or not at all
Init ==
    /\ Fresh
    /\ NoInput
    /\ pc = "start"
    /\ perf \in DevLevels
    /\ levelBefore = perf
    /\ agents = <<DefaultAddress>>
    /\ dev = [hip_ordinal |-> 0, hsa_agent |-> 0, pci_address |-> DefaultAddress]
    /\ enumeration \in {<<OtherAddress, DefaultAddress>>, <<OtherAddress>>}

Next ==
    \/ Construct
    \/ BenchBegin
    \/ WarmupFlush
    \/ WarmupSync1
    \/ WarmupWork
    \/ WarmupSync2
    \/ MeasureFlush
    \/ MeasureSync1
    \/ MeasureRecordStart
    \/ MeasureWork
    \/ MeasureRecordStop
    \/ MeasureSync2
    \/ Elapsed
    \/ Aggregate
    \/ DeviceExecNull
    \/ DeviceExecRecord
    \/ DeviceExecKernel
    \/ Destroy
    \/ MainExit

Spec == Init /\ [][Next]_vars

(***************************************************************************)
(* The life of a device object and of an executor on any host: the         *)
(* device is constructed, then the executor, which is destroyed again.     *)
(***************************************************************************)
Ordinals == {0, 1}

\* before gpu::device::device runs: dev.pci_address is the address HIP
\* reports for the ordinal (its function is always 0, gpu.hpp line 352)
LifeInit ==
    /\ Fresh
    /\ NoInput
    /\ pc = "boot"
    /\ perf = "AUTO"
    /\ levelBefore = perf
    /\ agents \in Hosts
    /\ enumeration \in Hosts
    /\ \E o \in Ordinals, a \in Addresses :
        dev = [hip_ordinal |-> o, hsa_agent |-> NoDevice,
               pci_address |-> [a EXCEPT !.function = 0]]

LifeNext ==
    \/ DeviceConstruct
    \/ Construct
    \/ Destroy

LifeSpec == LifeInit /\ [][LifeNext]_vars

(***************************************************************************)
(* Two executors on a device at any level.                                 *)
(***************************************************************************)
RaceInit ==
    /\ Fresh
    /\ NoInput
    /\ pc = "none"
    /\ perf \in DevLevels
    /\ levelBefore = perf
    /\ agents = <<>>
    /\ enumeration = <<>>
    /\ dev = [hip_ordinal |-> 0, hsa_agent |-> NoDevice, pci_address |-> DefaultAddress]

RaceNext ==
    \/ GovernorCtorGet
    \/ GovernorCtorSet
    \/ GovernorDtorGet
    \/ GovernorDtorSet

RaceSpec == RaceInit /\ [][RaceNext]_vars

(***************************************************************************)
(* The statistics: statistic<T> is constructed from a vector of samples;   *)
(* bench aggregates the samples of its measured trials.                    *)
(***************************************************************************)
SampleVectors(values, lengths) == UNION {[1..n -> values] : n \in lengths}

\* the harness is not running
Quiet ==
    /\ Fresh
    /\ pc = "none"
    /\ perf = "AUTO"
    /\ levelBefore = perf
    /\ agents = <<>>
    /\ enumeration = <<>>
    /\ dev = [hip_ordinal |-> 0, hsa_agent |-> NoDevice, pci_address |-> DefaultAddress]

\* a non-empty vector of samples; those of bench are elapsed times, which
\* are not negative, and there are `iterations` of them
StatInit ==
    /\ Quiet
    /\ NoCodename
    /\ NoObjects
    /\ NoCaches
    /\ NoSets
    /\ stat = NoStats
    /\ item_type \in {"int", "duration", "bench"}
    /\ items \in IF item_type = "bench"
                 THEN SampleVectors(0..MaxSample, {iterations})
                 ELSE SampleVectors((0 - MaxSample)..MaxSample, 1..MaxSamples)

StatisticInt ==
    /\ item_type = "int"
    /\ stat = NoStats
    /\ stat' \in statistic_int(items)
    /\ UNCHANGED <<item_type, items, classVars, exitVars, unitVars>>
    /\ UNCHANGED <<threadVars, deviceVars, smiVars, hostVars, raceVars, execVars, calls>>

StatisticDuration ==
    /\ item_type = "duration"
    /\ stat = NoStats
    /\ stat' = statistic_duration(items)
    /\ UNCHANGED <<item_type, items, classVars, exitVars, unitVars>>
    /\ UNCHANGED <<threadVars, deviceVars, smiVars, hostVars, raceVars, execVars, calls>>

\* benchmark.hpp lines 315-335, on their own
BenchAggregation ==
    /\ item_type = "bench"
    /\ stat = NoStats
    /\ stat' = BenchStats(items)
    /\ UNCHANGED <<item_type, items, classVars, exitVars, unitVars>>
    /\ UNCHANGED <<threadVars, deviceVars, smiVars, hostVars, raceVars, execVars, calls>>

StatNext ==
    \/ StatisticInt
    \/ StatisticDuration
    \/ BenchAggregation

StatSpec == StatInit /\ [][StatNext]_vars

(***************************************************************************)
(* The classification of a device by the codename it reports.              *)
(***************************************************************************)
\* codenames "gfx..." of up to MaxSuffix more characters, and some names
\* that are no gfx codenames; the device code that runs on a device was
\* built for the target of that name
Codenames ==
    {gfx \o t : t \in UNION {[1..n -> ArchChars] : n \in 0..MaxSuffix}}
        \cup {<<>>, <<"g", "f">>, <<"s", "m", "9", "0">>}

ClassInit ==
    /\ Quiet
    /\ NoSamples
    /\ NoObjects
    /\ NoCaches
    /\ NoSets
    /\ arch_name \in Codenames
    /\ family = "unset"
    /\ build_target \in {NoTarget} \cup ({arch_name} \cap DeviceTargets)
    /\ device_family = "unset"

\* dev.get_family()
Classify ==
    /\ family = "unset"
    /\ family' = get_family(arch_name)
    /\ UNCHANGED <<arch_name, build_target, device_family, statVars, exitVars, unitVars>>
    /\ UNCHANGED <<threadVars, deviceVars, smiVars, hostVars, raceVars, execVars, calls>>

\* get_device_family() is evaluated in device code on the device; the code
\* exists only when its compilation succeeded
GetDeviceFamily ==
    /\ build_target # NoTarget
    /\ device_family = "unset"
    /\ GPU_FAMILY(build_target) # "#error"
    /\ device_family' = get_device_family(GPU_FAMILY(build_target))
    /\ UNCHANGED <<arch_name, family, build_target, statVars, exitVars, unitVars>>
    /\ UNCHANGED <<threadVars, deviceVars, smiVars, hostVars, raceVars, execVars, calls>>

ClassNext ==
    \/ Classify
    \/ GetDeviceFamily

ClassSpec == ClassInit /\ [][ClassNext]_vars

(***************************************************************************)
(* The resource wrappers gpu::ptr<T>, gpu::event and gpu::stream           *)
(* (gpu.hpp 79-188): objects of one of the types are constructed, moved    *)
(* and destroyed.                                                          *)
(***************************************************************************)
ObjectIds == 1..MaxObjects

Kinds == {"ptr", "event", "stream"}

nullptr == 0

\* hipMalloc / hipEventCreate / hipStreamCreateWithFlags give out a handle
\* that is not in use
NewHandle == Cardinality(acquired) + 1

\* the release call of the destructor of each type
ReleaseCall(kind) ==
    CASE kind = "ptr" -> "hipFree"
      [] kind = "event" -> "hipEventDestroy"
      [] kind = "stream" -> "hipStreamDestroy"

\* faulty variant: the move constructor copies the handle of the source
exchange_copied(old, new) == [value |-> old, left |-> old]

\* std::exchange(other.raw, nullptr): the value returned and the value left
\* in the source
exchange(old, new) == [value |-> old, left |-> new]

Alive(o) == objects[o].life = "alive"

Did(name, dst, src) ==
    [op |-> name, dst |-> dst, src |-> src, before |-> objects]

\* no object of the scenario exists yet
MoveInit ==
    /\ Quiet
    /\ NoSamples
    /\ NoCodename
    /\ NoCaches
    /\ NoSets
    /\ \E kind \in Kinds :
        objects = [o \in ObjectIds |-> [kind |-> kind, life |-> "unborn", raw |-> nullptr]]
    /\ acquired = {}
    /\ releases = <<>>
    /\ last_op = NoOp

\* ptr(size_t), event(), stream(flags): GPU_TRY throws when the runtime call
\* fails, and then there is no object
ObjectConstruct ==
    /\ \E o \in ObjectIds :
        /\ objects[o].life = "unborn"
        /\ \/ /\ objects' = [objects EXCEPT ![o].life = "alive", ![o].raw = NewHandle]
              /\ acquired' = acquired \cup {NewHandle}
           \/ /\ objects' = [objects EXCEPT ![o].life = "failed"]
              /\ UNCHANGED acquired
        /\ last_op' = Did("construct", o, o)
    /\ UNCHANGED <<releases, cacheVars, setVars>>
    /\ UNCHANGED <<threadVars, deviceVars, smiVars, hostVars, raceVars, execVars, calls>>
    /\ UNCHANGED <<statVars, classVars, exitVars>>

\* ptr(ptr&&), event(event&&), stream(stream&&)
MoveConstruct ==
    /\ \E dst \in ObjectIds, src \in ObjectIds :
        /\ objects[dst].life = "unborn"
        /\ Alive(src)
        /\ LET x == exchange(objects[src].raw, nullptr)
           IN  objects' = [objects EXCEPT ![dst].life = "alive",
                                          ![dst].raw = x.value,
                                          ![src].raw = x.left]
        /\ last_op' = Did("move_construct", dst, src)
    /\ UNCHANGED <<acquired, releases, cacheVars, setVars>>
    /\ UNCHANGED <<threadVars, deviceVars, smiVars, hostVars, raceVars, execVars, calls>>
    /\ UNCHANGED <<statVars, classVars, exitVars>>

\* operator=(ptr&&), operator=(event&&), operator=(stream&&): std::swap of
\* the two handles
MoveAssign ==
    /\ \E dst \in ObjectIds, src \in ObjectIds :
        /\ Alive(dst)
        /\ Alive(src)
        /\ objects' = [objects EXCEPT ![dst].raw = objects[src].raw,
                                      ![src].raw = objects[dst].raw]
        /\ last_op' = Did("move_assign", dst, src)
    /\ UNCHANGED <<acquired, releases, cacheVars, setVars>>
    /\ UNCHANGED <<threadVars, deviceVars, smiVars, hostVars, raceVars, execVars, calls>>
    /\ UNCHANGED <<statVars, classVars, exitVars>>

\* ~ptr, ~event, ~stream: the handle is released when it is not null; the
\* status of the release call is discarded
ObjectDestroy ==
    /\ \E o \in ObjectIds :
        /\ Alive(o)
        /\ objects' = [objects EXCEPT ![o].life = "dead"]
        /\ releases' = IF objects[o].raw # nullptr
                       THEN Append(releases, [call |-> ReleaseCall(objects[o].kind),
                                              handle |-> objects[o].raw])
                       ELSE releases
        /\ last_op' = Did("destroy", o, o)
    /\ UNCHANGED <<acquired, cacheVars, setVars>>
    /\ UNCHANGED <<threadVars, deviceVars, smiVars, hostVars, raceVars, execVars, calls>>
    /\ UNCHANGED <<statVars, classVars, exitVars>>

MoveNext ==
    \/ ObjectConstruct
    \/ MoveConstruct
    \/ MoveAssign
    \/ ObjectDestroy

MoveSpec == MoveInit /\ [][MoveNext]_vars

(***************************************************************************)
(* The size of the cache-flush buffer: properties::largest_cache_size      *)
(* (gpu.hpp 320-329) over the four sizes HSA_AGENT_INFO_CACHE_SIZE gives.  *)
(***************************************************************************)
CacheLevels == 4

\* line 328
DefaultCacheSize == 256 * 1024 * 1024

\* the loop of lines 321-325 from index i downwards; line 328 after it
RECURSIVE largest_from(_, _)
largest_from(k, sizes) ==
    IF k < 0 THEN DefaultCacheSize
    ELSE IF sizes[k + 1] # 0 THEN sizes[k + 1]
         ELSE largest_from(k - 1, sizes)

largest_cache_size(sizes) == largest_from(Len(sizes) - 1, sizes)

CacheInit ==
    /\ Quiet
    /\ NoSamples
    /\ NoCodename
    /\ NoObjects
    /\ NoSets
    /\ cache_size \in [1..CacheLevels -> 0..MaxCacheSize]
    /\ flush_size = NoSize

\* benchmark.hpp line 216: max_cache_size(dev.largest_cache_size())
LargestCacheSize ==
    /\ flush_size = NoSize
    /\ flush_size' = largest_cache_size(cache_size)
    /\ UNCHANGED <<cache_size, moveVars, setVars>>
    /\ UNCHANGED <<threadVars, deviceVars, smiVars, hostVars, raceVars, execVars, calls>>
    /\ UNCHANGED <<statVars, classVars, exitVars>>

CacheNext == LargestCacheSize

CacheSpec == CacheInit /\ [][CacheNext]_vars

(***************************************************************************)
(* gpu::family_set (gpu.hpp 209-287). An object is the value of its member *)
(* families; an operator gives the value it returns and the value it       *)
(* leaves in the object it is called on.                                   *)
(***************************************************************************)
\* enum bits, lines 210-225
bits ==
    [none |-> 0, gcn5 |-> 1, rdna1 |-> 2, rdna2 |-> 4, rdna3 |-> 8, rdna4 |-> 16,
     cdna1 |-> 32, cdna2 |-> 64, cdna3 |-> 128, all |-> (128 * 2) - 1]

Families == {"gcn5", "rdna1", "rdna2", "rdna3", "rdna4", "cdna1", "cdna2", "cdna3"}

\* unop and binop (lines 243-245, 253-255) apply the integer operator to the
\* backing values of the operands and cast the result back to bits
\* a const member function returns a new object; an operator that assigns
\* to *this returns a reference to the object it was called on
Returns(value, self) == [value |-> value, self |-> self]
Assigns(value) == [value |-> value, self |-> value]

\* faulty variant: the complement is not masked with bits::all
operator_not_unmasked(self) ==
    Returns(BitNot(self), self)

\* lines 247-249
operator_not(self) ==
    Returns(BitAnd(BitNot(self), bits.all), self)

\* lines 257-259; there is no other operator|
operator_or(mutable, self, other) ==
    Returns(BitOr(self, other), self)

\* lines 261-264
operator_or_assign(self, other) ==
    Assigns(BitOr(self, other))

\* lines 266-273: the overload without const is the one called on an object
\* that is not const
operator_and(mutable, self, other) ==
    IF mutable
    THEN Assigns(BitAnd(self, other))
    ELSE Returns(BitAnd(self, other), self)

\* lines 275-282, likewise
operator_xor(mutable, self, other) ==
    IF mutable
    THEN Assigns(BitXor(self, other))
    ELSE Returns(BitXor(self, other), self)

\* lines 233-235
operator_eq(self, other) == self = other

\* faulty variant: the set has some family in common with the other
contains_some(self, other) ==
    ~operator_eq(operator_and(FALSE, self, other).value, bits.none)

\* lines 284-286: *this is const in a const member function
contains(self, other) ==
    operator_eq(operator_and(FALSE, self, other).value, other)

\* a value of type family_set / of type bool
SetValue(families) == [type |-> "family_set", families |-> families]
BoolValue(holds) == [type |-> "bool", holds |-> holds]

RECURSIVE UnionOf(_)
UnionOf(names) ==
    IF names = {} THEN bits.none
    ELSE LET n == CHOOSE m \in names : TRUE
         IN  operator_or(FALSE, bits[n], UnionOf(names \ {n})).value

Operands ==
    LET few == {UnionOf(names) : names \in {t \in SUBSET Families : Cardinality(t) <= MaxUnion}}
    IN  few \cup {operator_not(x).value : x \in few}

\* the expression evaluated, with the values of a and b when it is entered
Expression(operator, right) ==
    [operator |-> operator, right |-> right, a |-> fs_a, b |-> fs_b]

\* the right operand: b, a itself, or the temporary ~a
RightOperand(right) ==
    CASE right = "b" -> fs_b
      [] right = "a" -> fs_a
      [] right = "~a" -> operator_not(fs_a).value

SetInit ==
    /\ Quiet
    /\ NoSamples
    /\ NoCodename
    /\ NoObjects
    /\ NoCaches
    /\ fs_a \in Operands
    /\ fs_b \in Operands
    /\ fs_mutable \in BOOLEAN
    /\ fs_expr = NoExpression
    /\ fs_value = 0

\* an expression `a <op> <right>` or `<op> a` is evaluated once
Evaluated(expr, outcome) ==
    /\ fs_expr = NoExpression
    /\ fs_expr' = expr
    /\ fs_value' = SetValue(outcome.value)
    /\ fs_a' = outcome.self
    /\ UNCHANGED <<fs_b, fs_mutable, moveVars, cacheVars>>
    /\ UNCHANGED <<threadVars, deviceVars, smiVars, hostVars, raceVars, execVars, calls>>
    /\ UNCHANGED <<statVars, classVars, exitVars>>

\* ~a and ~~a
OperatorNot ==
    \/ Evaluated(Expression("~", "none"), operator_not(fs_a))
    \/ Evaluated(Expression("~~", "none"),
                 Returns(operator_not(operator_not(fs_a).value).value, fs_a))

\* a | b, a | ~a
OperatorOr ==
    \E right \in {"b", "~a"} :
        Evaluated(Expression("|", right), operator_or(fs_mutable, fs_a, RightOperand(right)))

\* a |= b, which needs an a that is not const
OperatorOrAssign ==
    /\ fs_mutable
    /\ Evaluated(Expression("|=", "b"), operator_or_assign(fs_a, RightOperand("b")))

\* a & b, a & ~a
OperatorAnd ==
    \E right \in {"b", "~a"} :
        Evaluated(Expression("&", right), operator_and(fs_mutable, fs_a, RightOperand(right)))

\* a ^ b, a ^ a
OperatorXor ==
    \E right \in {"b", "a"} :
        Evaluated(Expression("^", right), operator_xor(fs_mutable, fs_a, RightOperand(right)))

\* a.contains(b), a == b
Queried(expr, holds) ==
    /\ fs_expr = NoExpression
    /\ fs_expr' = expr
    /\ fs_value' = BoolValue(holds)
    /\ UNCHANGED <<fs_a, fs_b, fs_mutable, moveVars, cacheVars>>
    /\ UNCHANGED <<threadVars, deviceVars, smiVars, hostVars, raceVars, execVars, calls>>
    /\ UNCHANGED <<statVars, classVars, exitVars>>

Contains == Queried(Expression("contains", "b"), contains(fs_a, fs_b))

OperatorEq == Queried(Expression("==", "b"), operator_eq(fs_a, fs_b))

SetNext ==
    \/ OperatorNot
    \/ OperatorOr
    \/ OperatorOrAssign
    \/ OperatorAnd
    \/ OperatorXor
    \/ Contains
    \/ OperatorEq

SetSpec == SetInit /\ [][SetNext]_vars

(***************************************************************************)
(* Properties.                                                             *)
(***************************************************************************)
IsPrefix(a, b) == Len(a) <= Len(b) /\ \A k \in 1..Len(a) : a[k] = b[k]

\* the names of the calls issued in turn t of the loop `ph`, in order
TrialNames(ph, t) ==
    LET InTrial(c) == c.phase = ph /\ c.trial = t
        sel == SelectSeq(calls, InTrial)
    IN  [k \in 1..Len(sel) |-> sel[k].call]

\* the trials of the running bench, in the order their workload was invoked
TrialsRun ==
    LET IsWork(c) == c.call = "workload"
        sel == SelectSeq(calls, IsWork)
    IN  [k \in 1..Len(sel) |-> <<sel[k].phase, sel[k].trial>>]

TrialsExpected ==
    [k \in 1..(warmups + iterations) |->
        IF k <= warmups THEN <<"warmup", k>> ELSE <<"measure", k - warmups>>]

Pending == {nullQ[k] : k \in DOMAIN nullQ} \cup {streamQ[k] : k \in DOMAIN streamQ}

BenchReturned == pc = "idle" /\ result # NoStats

\* C1: when bench returns, it has run `warmups` warmup trials and then
\* `iterations` measured trials, and the statistics are those of exactly
\* `iterations` samples, sample k being the elapsed time between the start and
\* the stop event of measured trial k; no event is recorded in a warmup trial.
C1_BenchAggregatesMeasuredTrials ==
    BenchReturned =>
        /\ TrialsRun = TrialsExpected
        /\ Len(durations) = iterations
        /\ \A k \in 1..iterations :
            /\ events[k].start # NoTime /\ events[k].stop # NoTime
            /\ durations[k] = events[k].stop - events[k].start
        /\ \A k \in DOMAIN calls :
            calls[k].call \in {"start", "stop"} => calls[k].phase = "measure"
        /\ result.average = [num |-> fold_left_plus(durations), den |-> iterations]
        /\ result.fastest = minOf(durations)
        /\ result.slowest = maxOf(durations)

\* a bench call has returned statistics of samples that are not all equal
C1_Witness == BenchReturned /\ result.fastest < result.slowest

MeasuredSteps == <<"memset", "sync", "start", "workload", "stop", "sync">>

\* C2: the calls of every measured trial are issued in the order memset, sync,
\* record start, workload, record stop, sync; and once the start record of a
\* trial has been issued, the flush of that trial is no longer pending on the
\* device.
C2_MeasuredTrialOrder ==
    \A t \in 1..iterations :
        /\ IsPrefix(TrialNames("measure", t), MeasuredSteps)
        /\ Len(TrialNames("measure", t)) >= 3 =>
             \A op \in Pending : ~(op.op = "memset" /\ op.phase = "measure" /\ op.trial = t)

\* a measured trial has been issued completely
C2_Witness == TrialNames("measure", iterations) = MeasuredSteps

\* C3: when the flush of a trial is about to be submitted, no operation is
\* pending on the device; at any time of bench every pending operation was
\* submitted during the current trial.
C3_TrialsNeverOverlap ==
    /\ pc \in {"w_flush", "m_flush"} => nullQ = <<>> /\ streamQ = <<>>
    /\ pc \in {"w_flush", "w_sync1", "w_work", "w_sync2", "m_flush", "m_sync1",
               "m_start", "m_work", "m_stop", "m_sync2"} =>
         \A op \in Pending : op.phase = Phase /\ op.trial = i

\* the thread is about to flush for a measured trial that follows another one
\* whose workload enqueued kernels
C3_Witness == pc = "m_flush" /\ i >= 2 /\ nKernels >= 1 /\ asyncErr = hipSuccess

\* C4: an event pair's start timestamp is never later than its stop
\* timestamp, a stop event is stamped only after its start event, and every
\* sample collected is non-negative.
C4_ElapsedNonNegative ==
    /\ \A k \in DOMAIN events :
        events[k].stop # NoTime =>
            events[k].start # NoTime /\ events[k].start <= events[k].stop
    /\ \A k \in DOMAIN durations : durations[k] >= 0

\* samples were collected, one of a trial whose kernels took device time
C4_Witness == Len(durations) = iterations /\ durations[1] > 0

\* C5: the flush is submitted to the executor's own stream: a memset is
\* never pending on another stream than the one the events are recorded on.
C5_FlushOnExecutorStream == \A k \in DOMAIN nullQ : nullQ[k].op # "memset"

\* C6 as stated: a warmup trial issues the same calls as a measured trial.
C6_WarmupSameProtocol ==
    \A t \in 1..warmups : IsPrefix(TrialNames("warmup", t), MeasuredSteps)

WarmupSteps == <<"memset", "sync", "workload", "sync">>

\* C6 amended: a warmup trial issues memset, sync, workload, sync in this
\* order; it records no event, and no elapsed time is queried for it.
C6_WarmupProtocol ==
    /\ \A t \in 1..warmups : IsPrefix(TrialNames("warmup", t), WarmupSteps)
    /\ \A k \in DOMAIN calls :
        calls[k].call \in {"start", "stop", "elapsed"} => calls[k].phase # "warmup"
    /\ \A op \in Pending : op.phase = "warmup" => op.op \in {"memset", "kernel"}

\* the last warmup trial has been issued completely
C6_Witness == TrialNames("warmup", warmups) = WarmupSteps

\* C7: a call that returned a non-success status is the last call bench
\* issued; bench has then been left by an exception that carries this status
\* code and its message, and no statistics were returned.
C7_ErrorAbortsBench ==
    \A k \in DOMAIN calls :
        calls[k].status # hipSuccess =>
            /\ k = Len(calls)
            /\ pc \in {"thrown", "exit", "aborted", "exited"}
            /\ result = NoStats
            /\ err.kind = "gpu::error"
            /\ err.status = calls[k].status
            /\ err.what = <<hipGetErrorString(calls[k].status), calls[k].status>>

\* the synchronize that ends the second measured trial has failed
C7_Witness ==
    /\ pc = "thrown"
    /\ calls[Len(calls)].call = "sync"
    /\ calls[Len(calls)].phase = "measure"
    /\ calls[Len(calls)].status = "hipErrorLaunchFailure"
    /\ Len(TrialNames("measure", 2)) = 6

SmiCalls(during, call) ==
    LET Is(c) == c.during = during /\ c.call = call IN SelectSeq(smiLog, Is)

AllSmiCallsSucceeded == \A k \in DOMAIN smiLog : smiLog[k].status = RSMI_STATUS_SUCCESS

C9_NoSetWhenAlreadyPeak ==
    orig_perf_level = RSMI_DEV_PERF_LEVEL_STABLE_PEAK =>
        \A k \in DOMAIN smiLog : smiLog[k].call # "set"

\* C9 amended: when the level read at construction is stable peak, the
\* constructor issues its one set call, for stable peak, which leaves the level
\* where it was, and the destructor issues no set call.
C9_OnlyCtorSetWhenAlreadyPeak ==
    orig_perf_level = RSMI_DEV_PERF_LEVEL_STABLE_PEAK =>
        /\ Len(SmiCalls("ctor", "set")) = 1
        /\ SmiCalls("ctor", "set")[1].level = RSMI_DEV_PERF_LEVEL_STABLE_PEAK
        /\ perf = levelBefore
        /\ SmiCalls("dtor", "set") = <<>>

\* an executor that found the device at stable peak has been destroyed after
\* re-reading the level
C9_Witness ==
    /\ pc = "exit"
    /\ orig_perf_level = RSMI_DEV_PERF_LEVEL_STABLE_PEAK
    /\ Len(SmiCalls("dtor", "get")) = 1
    /\ SmiCalls("dtor", "get")[1].status = RSMI_STATUS_SUCCESS

CtorGetFailed == smiLog # <<>> /\ smiLog[1].status # RSMI_STATUS_SUCCESS

\* C10: when the constructor's read of the level fails, the original level
\* stays unknown and the destructor issues no get and no set call.
C10_NoRestoreWhenReadFailed ==
    CtorGetFailed =>
        /\ orig_perf_level = RSMI_DEV_PERF_LEVEL_UNKNOWN
        /\ \A k \in DOMAIN smiLog : smiLog[k].during # "dtor"

\* the read failed, the pin succeeded, and the executor has been destroyed
\* leaving the device at a level it did not have before
C10_Witness ==
    /\ pc = "exit"
    /\ CtorGetFailed
    /\ perf # levelBefore

\* the warning the constructor writes for a performance-level call that failed
CtorWarningFor(c) ==
    IF c.call = "get" THEN "warning: failed to query current perf level"
    ELSE IF c.status = RSMI_STATUS_PERMISSION
         THEN "warning: could not set perf level: insufficient permissions"
         ELSE "warning: failed to set perf level"

\* C11: a performance-level get or set that fails during construction does
\* not abort it: the constructor still issues both calls, no exception of the
\* telemetry library is in flight, the executor is constructed, and a warning
\* for the failed call has been written.
C11_CtorLevelFailureIsWarning ==
    \A k \in DOMAIN smiLog :
        (smiLog[k].during = "ctor" /\ smiLog[k].status # RSMI_STATUS_SUCCESS) =>
            /\ pc # "ctor_failed"
            /\ err.kind # "rsmi_error"
            /\ Len(SmiCalls("ctor", "get")) = 1
            /\ Len(SmiCalls("ctor", "set")) = 1
            /\ \E w \in DOMAIN warnings : warnings[w] = CtorWarningFor(smiLog[k])

\* both performance-level calls of the constructor failed, the set for lack
\* of permission, and a bench call on the executor has returned statistics
C11_Witness ==
    /\ BenchReturned
    /\ Len(smiLog) >= 2
    /\ smiLog[1].status # RSMI_STATUS_SUCCESS
    /\ smiLog[2].status = RSMI_STATUS_PERMISSION
    /\ perf = levelBefore

\* the warnings written so far that the constructor did not write
WarningsOfDtor ==
    LET NotCtor(w) ==
            w \notin {"warning: failed to query current perf level",
                      "warning: could not set perf level: insufficient permissions",
                      "warning: failed to set perf level"}
    IN  SelectSeq(warnings, NotCtor)

FailedDtorCalls ==
    LET Failed(c) == c.during = "dtor" /\ c.status # RSMI_STATUS_SUCCESS
    IN  SelectSeq(smiLog, Failed)

\* C12: every performance-level call that fails in the destructor, the
\* re-read of the current level as well as the restoring set, has a warning
\* written for it.
C12_DtorFailuresWarn == Len(WarningsOfDtor) >= Len(FailedDtorCalls)

\* the index of `target` in an enumeration of distinct addresses, NoDevice if
\* it is not among them
IndexOf(enum, target) ==
    IF \E k \in DOMAIN enum : enum[k] = target
    THEN (CHOOSE k \in DOMAIN enum : enum[k] = target) - 1
    ELSE NoDevice

ResolutionFailed == pc = "ctor_failed" /\ err = map_error(dev.hip_ordinal)

\* the gpu::device has been constructed
DeviceMapped == pc \notin {"boot", "dev_failed"}

\* the lookup of the HSA agent is exact: a device is constructed only with
\* the agent at its own address
HsaLookupExact ==
    /\ DeviceMapped => dev.hsa_agent = IndexOf(agents, dev.pci_address)
    /\ DeviceMapped => dev.hsa_agent # NoDevice

\* C13: for an enumeration of devices at pairwise distinct addresses, the
\* resolver returns k when the target's address is that of index k, and it
\* fails with the identity-resolution error, returning no index, when no
\* enumerated device has the target's address.
C13_ResolverReturnsIndex ==
    /\ HsaLookupExact
    /\ rsmi_dev # NoDevice => rsmi_dev = IndexOf(enumeration, dev.pci_address)
    /\ ResolutionFailed => IndexOf(enumeration, dev.pci_address) = NoDevice

\* the constructor has asked for the id of every enumerated device, each call
\* succeeding, and has left the loop without a match
LoopExhausted ==
    /\ pc = "ctor_failed"
    /\ rsmiCalls = ResolverCalls(Len(enumeration), RSMI_STATUS_SUCCESS)

RsmiCallsNamed(name) ==
    LET Is(c) == c.call = name IN SelectSeq(rsmiCalls, Is)

\* C15: a failed identity resolution is fatal to the construction: no
\* performance-level call has been or will be issued and the level is
\* untouched, there is no executor (no bench call can begin, no destructor
\* runs, the constructor is not entered again), the devices were enumerated
\* once and each was asked for its id once, and the stream and the cache-flush
\* buffer the constructor had acquired are released.
C15_ResolutionFailureIsFatal ==
    ResolutionFailed =>
        /\ smiLog = <<>>
        /\ perf = levelBefore
        /\ rsmi_dev = NoDevice
        /\ calls = <<>> /\ result = NoStats
        /\ ~ENABLED BenchBegin
        /\ ~ENABLED Destroy
        /\ ~ENABLED Construct
        /\ Len(RsmiCallsNamed("rsmi_num_monitor_devices")) = 1
        /\ LET ids == RsmiCallsNamed("rsmi_dev_pci_id_get")
           IN  /\ Len(ids) = Len(enumeration)
               /\ \A k \in DOMAIN ids : ids[k].arg = k - 1
        /\ held = {}

\* the library monitors a device, which is not the one of the executor
C15_Witness == ResolutionFailed /\ Len(enumeration) >= 1 /\ rsmiCalls # <<>>

SuccessfulInits ==
    LET Is(c) == c.call = "rsmi_init" /\ c.status = RSMI_STATUS_SUCCESS
    IN  SelectSeq(rsmiCalls, Is)

\* the construction has failed, or the executor has been destroyed
LifeEnded == pc \in {"ctor_failed", "exit", "aborted"}

\* C16: init and shutdown of the telemetry library are paired: when the life
\* of an executor has ended, also by a construction that failed after init
\* succeeded, every successful init has been followed by one shutdown call.
C16_InitShutdownPaired ==
    LifeEnded => Len(RsmiCallsNamed("rsmi_shut_down")) = Len(SuccessfulInits)

Computed == stat # NoStats

IsMinimum(x, v) == (\E k \in DOMAIN v : v[k] = x) /\ (\A k \in DOMAIN v : x <= v[k])
IsMaximum(x, v) == (\E k \in DOMAIN v : v[k] = x) /\ (\A k \in DOMAIN v : v[k] <= x)

\* low <= q <= high for the fraction q
FractionBetween(low, q, high) == low * q.den <= q.num /\ q.num <= high * q.den

\* C17: for a non-empty vector of samples (ints, also negative ones, and
\* durations), smallest and largest are the minimum and the maximum of the
\* samples and smallest <= average <= largest; so for the samples of bench.
C17_AverageBetweenExtremes ==
    Computed =>
        CASE item_type = "int" ->
                /\ IsMinimum(stat.smallest, items) /\ IsMaximum(stat.largest, items)
                /\ stat.smallest <= stat.average /\ stat.average <= stat.largest
          [] item_type = "duration" ->
                /\ IsMinimum(stat.smallest, items) /\ IsMaximum(stat.largest, items)
                /\ FractionBetween(stat.smallest, stat.average, stat.largest)
          [] item_type = "bench" ->
                /\ IsMinimum(stat.fastest, items) /\ IsMaximum(stat.slowest, items)
                /\ FractionBetween(stat.fastest, stat.average, stat.slowest)

AllEqual(v) == \A k \in DOMAIN v : v[k] = v[1]

\* the radicand of the square root that a floating-point stddev is
StddevSquared == IF item_type = "bench" THEN stat.variance ELSE stat.stddev.radicand

\* C18: for a non-empty vector of samples the stddev is not negative, and it
\* is zero if and only if all samples are equal.
C18_StddevZeroIffEqual ==
    Computed =>
        IF item_type = "int"
        THEN stat.stddev >= 0 /\ (stat.stddev = 0 <=> AllEqual(items))
        ELSE /\ StddevSquared.num >= 0 /\ StddevSquared.den > 0
             /\ StddevSquared.num = 0 <=> AllEqual(items)

RECURSIVE Sum(_)
Sum(v) == IF v = <<>> THEN 0 ELSE v[1] + Sum(Tail(v))

\* N^2 times the sum of the squared deviations of the samples from their mean
ScaledDeviations(v) ==
    LET N == Len(v) IN Sum([k \in 1..N |-> (N * v[k] - Sum(v)) * (N * v[k] - Sum(v))])

\* C19: the stddev is the population standard deviation: its square is the
\* sum of the squared deviations from the average, divided by the number N
\* of samples, in statistic<T> (T a floating-point duration) and in bench.
C19_StddevIsPopulation ==
    (Computed /\ item_type \in {"duration", "bench"}) =>
        LET N == Len(items)
        IN  StddevSquared.num * (N * N * N) = ScaledDeviations(items) * StddevSquared.den

Classified == family # "unset"

\* C20: the runtime classification maps "gfx1031" to rdna2, "gfx90a" to
\* cdna2, "gfx1100" to rdna3 and "gfx000" to none.
C20_ClassifierExamples ==
    Classified =>
        /\ arch_name = gfx \o <<"1", "0", "3", "1">> => family = "rdna2"
        /\ arch_name = gfx \o <<"9", "0", "a">> => family = "cdna2"
        /\ arch_name = gfx \o <<"1", "1", "0", "0">> => family = "rdna3"
        /\ arch_name = gfx \o <<"0", "0", "0">> => family = "none"

\* "gfx90a", which also starts with "gfx9", has been classified
C20_Witness == Classified /\ arch_name = gfx \o <<"9", "0", "a">> /\ family = "cdna2"

\* the targets the compile-time selection recognises by name or generation
RecognisedTargets == GFX9 \cup GFX10 \cup GFX11 \cup GFX12

\* C21: for every recognised target, the family get_device_family returns in
\* a binary built for it equals the family get_family returns for a device
\* reporting that codename.
C21_CompileTimeMatchesRuntime ==
    (/\ Classified
     /\ device_family # "unset"
     /\ build_target = arch_name
     /\ build_target \in RecognisedTargets)
        => device_family = family

\* both derivations have classified gfx90c, and gfx1151 by its generation
C21_Witness ==
    /\ Classified
    /\ device_family = family
    /\ build_target = arch_name
    /\ arch_name \in {gfx \o <<"9", "0", "c">>, gfx \o <<"1", "1", "5", "1">>}

Moved == last_op.op \in {"move_construct", "move_assign"}

\* C22: after a move construction and after a move assignment (between two
\* objects) the source is empty (its raw handle is null) and the
\* destination holds the handle the source held before.
C22_MoveEmptiesSource ==
    (Moved /\ last_op.dst # last_op.src) =>
        /\ objects[last_op.src].raw = nullptr
        /\ objects[last_op.dst].raw = last_op.before[last_op.src].raw

ReleasesOf(h) == {k \in 1..Len(releases) : releases[k].handle = h}

AllDestroyed == \A o \in ObjectIds : ~Alive(o)

\* C23: no release call is issued for a null handle, none is issued twice
\* for a resource, and once every object is destroyed each resource that
\* was acquired has been released exactly once.
C23_ReleasedExactlyOnce ==
    /\ \A k \in 1..Len(releases) :
        /\ releases[k].handle # nullptr
        /\ releases[k].handle \in acquired
    /\ \A h \in acquired : Cardinality(ReleasesOf(h)) <= 1
    /\ AllDestroyed => \A h \in acquired : Cardinality(ReleasesOf(h)) = 1

\* an object was constructed, moved from twice (by construction and by
\* swapping assignment) and all objects are destroyed: one release
C23_Witness ==
    /\ AllDestroyed
    /\ Cardinality(acquired) = 2
    /\ Len(releases) = 2
    /\ \E o \in ObjectIds : objects[o].life = "dead" /\ objects[o].raw = nullptr

Exited == pc = "exited"

Written(line) == \E k \in DOMAIN cerr : cerr[k].line = line /\ cerr[k].what = err.what

\* C24: the process exits with status 0 when all benchmarks complete, and
\* with status 1 on an uncaught device or telemetry error, the failure of
\* the identity resolution included; in that case the message of the error
\* and its captured stack trace have been written to standard error.
C24_ExitStatusAndReport ==
    Exited =>
        /\ err = NoError => exit_status = 0
        /\ err # NoError =>
            /\ exit_status = 1
            /\ Written("caught exception")
            /\ Written("trace")

Sized == flush_size # NoSize

\* C25: the size chosen for the cache-flush buffer is at least the reported
\* size of every cache level, whatever the sizes reported, and it is
\* 256 MiB when no level reports a size that is not zero.
C25_FlushSizeIsLargest ==
    Sized =>
        /\ \A level \in 1..CacheLevels : flush_size >= cache_size[level]
        /\ (\A level \in 1..CacheLevels : cache_size[level] = 0)
                => flush_size = 256 * 1024 * 1024

\* the bus addresses present on the host: those of the devices the
\* telemetry library monitors and that of the device of the executor
AddressesSeen == {enumeration[k] : k \in DOMAIN enumeration} \cup {dev.pci_address}

\* C26: the packed form domain<<13 | bus<<8 | device<<3 | function
\* identifies a bus address: two addresses with the same packed form are the
\* same address, so the device the resolver selects by comparing packed
\* forms is the device at the address of the target.
C26_PackedFormUnique ==
    rsmi_dev # NoDevice =>
        /\ \A a \in AddressesSeen, b \in AddressesSeen :
                rsmi_id(a) = rsmi_id(b) => a = b
        /\ enumeration[rsmi_dev + 1] = dev.pci_address

\* the rules of the classifier as a set of (prefix, tag) pairs
RuleSet ==
    {[prefix |-> gfx \o <<"1", "2">>, tag |-> "rdna4"],
     [prefix |-> gfx \o <<"1", "1">>, tag |-> "rdna3"],
     [prefix |-> gfx \o <<"1", "0", "3">>, tag |-> "rdna2"],
     [prefix |-> gfx \o <<"1", "0", "1">>, tag |-> "rdna1"],
     [prefix |-> gfx \o <<"9", "4">>, tag |-> "cdna3"],
     [prefix |-> gfx \o <<"9", "5">>, tag |-> "cdna3"],
     [prefix |-> gfx \o <<"9", "0", "a">>, tag |-> "cdna2"],
     [prefix |-> gfx \o <<"9", "0", "8">>, tag |-> "cdna1"],
     [prefix |-> gfx \o <<"9">>, tag |-> "gcn5"]}

\* the rules whose prefix the codename starts with
Matching(name) == {r \in RuleSet : IsPrefix(r.prefix, name)}

\* bit is set in the integer x
HasBit(x, bit) == (x \div bit) % 2 = 1

\* the families whose bit is set in x
FamiliesIn(x) == {f \in Families : HasBit(x, bits[f])}

\* C27: for every codename the runtime classifier returns the tag of the
\* longest rule prefix the codename starts with, and none when it starts
\* with no rule prefix; the result is none or has exactly one family bit.
C27_LongestPrefixWins ==
    Classified =>
        /\ Matching(arch_name) = {} => family = "none"
        /\ \A r \in Matching(arch_name) :
                (\A q \in Matching(arch_name) : Len(q.prefix) <= Len(r.prefix))
                    => family = r.tag
        /\ family = "none" \/ Cardinality(FamiliesIn(bits[family])) = 1
        /\ family = "none" => bits[family] = 0

\* a codename that starts with the prefixes gfx9 and gfx908 is classified
\* by the longer one
C27_Witness ==
    /\ Classified
    /\ Cardinality(Matching(arch_name)) = 2
    /\ arch_name = gfx \o <<"9", "0", "8", "a">>
    /\ family = "cdna1"

SetOperator == fs_expr.operator

\* C28: family_set is a Boolean algebra over the eight family bits: the
\* complement has no bit outside all, ~~a = a, a | ~a = all, a & ~a = none,
\* a ^ a = none, and | & ^ are the union, the intersection and the
\* symmetric difference of the families of the operands.
C28_BooleanAlgebra ==
    LET a == fs_expr.a
        b == fs_expr.b
        v == fs_value.families
        A == FamiliesIn(a)
        B == FamiliesIn(b)
    IN  /\ SetOperator = "~" =>
            /\ v \in 0..bits.all
            /\ FamiliesIn(v) = Families \ A
        /\ SetOperator = "~~" => v = a
        /\ (SetOperator = "|" /\ fs_expr.right = "~a") => v = bits.all
        /\ (SetOperator = "&" /\ fs_expr.right = "~a") => v = bits.none
        /\ (SetOperator = "^" /\ fs_expr.right = "a") => v = bits.none
        /\ (SetOperator = "|" /\ fs_expr.right = "b") =>
            v \in 0..bits.all /\ FamiliesIn(v) = A \cup B
        /\ (SetOperator = "&" /\ fs_expr.right = "b") =>
            v \in 0..bits.all /\ FamiliesIn(v) = A \cap B
        /\ (SetOperator = "^" /\ fs_expr.right = "b") =>
            v \in 0..bits.all /\ FamiliesIn(v) = (A \ B) \cup (B \ A)

\* the complement of rdna2 and the symmetric difference of two sets that
\* overlap have been computed
C28_Witness ==
    \/ /\ SetOperator = "~"
       /\ fs_expr.a = bits.rdna2
       /\ fs_value.families = bits.all - bits.rdna2
    \/ /\ SetOperator = "^"
       /\ fs_expr.right = "b"
       /\ fs_expr.a = bits.all
       /\ fs_expr.b = bits.cdna3
       /\ fs_value.families = bits.all - bits.cdna3

\* C29: a.contains(b) is true exactly when every family of b is a family
\* of a; hence every set contains none, all contains every set, and two
\* sets that contain each other are equal.
C29_Containment ==
    SetOperator = "contains" =>
        LET a == fs_expr.a
            b == fs_expr.b
        IN  /\ fs_value.holds <=> FamiliesIn(b) \subseteq FamiliesIn(a)
            /\ b = bits.none => fs_value.holds
            /\ a = bits.all => fs_value.holds
            /\ (fs_value.holds /\ contains(b, a)) => operator_eq(a, b)

\* a set of seven families contains one of them and not the eighth
C29_Witness ==
    /\ SetOperator = "contains"
    /\ fs_expr.a = bits.all - bits.gcn5
    /\ \/ fs_expr.b = bits.cdna1 /\ fs_value.holds
       \/ fs_expr.b = bits.gcn5 /\ ~fs_value.holds

\* C30: evaluating a | b, a & b, a ^ b or ~a leaves both operands
\* unchanged, whether or not a is a mutable object; only |= modifies its
\* left operand.
C30_OperatorsArePure ==
    SetOperator \in {"|", "&", "^", "~", "~~"} =>
        /\ fs_a = fs_expr.a
        /\ fs_b = fs_expr.b

\* the executor's constructor has got as far as the performance level
Governed == rsmi_dev # NoDevice

\* the executor has been destroyed
Destroyed == pc \in {"exit", "aborted", "exited"} /\ Governed

\* C31: the governor goes from uninitialized to pinned to restored and never
\* back. Before it is constructed no level call and no bench call has been
\* made. Its constructor reads the level once, then asks for stable peak
\* once; the stored original is what that read gave and stays so. Every
\* later call is the destructor's, at most one read and one set, and once
\* the destructor has run no bench call can begin.
C31_GovernorOrder ==
    /\ ~Governed =>
         /\ smiLog = <<>>
         /\ orig_perf_level = RSMI_DEV_PERF_LEVEL_UNKNOWN
         /\ calls = <<>> /\ result = NoStats
    /\ Governed =>
         /\ Len(smiLog) >= 2
         /\ smiLog[1].call = "get" /\ smiLog[2].call = "set"
         /\ Len(SmiCalls("ctor", "get")) = 1
         /\ Len(SmiCalls("ctor", "set")) = 1
         /\ orig_perf_level =
               perf_level_get(smiLog[1].status, levelBefore, RSMI_DEV_PERF_LEVEL_UNKNOWN)
         /\ \A k \in 3..Len(smiLog) : smiLog[k].during = "dtor"
         /\ Len(SmiCalls("dtor", "get")) <= 1
         /\ Len(SmiCalls("dtor", "set")) <= 1
         /\ SmiCalls("dtor", "set") # <<>> =>
               /\ smiLog[Len(smiLog)].call = "set"
               /\ smiLog[Len(smiLog)].level = orig_perf_level
         /\ Len(smiLog) > 2 => Destroyed
         /\ Destroyed => ~ENABLED BenchBegin

\* an executor has pinned the device, returned the statistics of a bench
\* call, and restored the level in its destructor
C31_Witness ==
    /\ Destroyed
    /\ result # NoStats
    /\ Len(SmiCalls("ctor", "set")) = 1
    /\ Len(SmiCalls("dtor", "set")) = 1
    /\ orig_perf_level = levelBefore

\* both executors have been destroyed and none of their level calls failed
BothGone ==
    \A g \in Governors : governors[g].at = "gone" /\ ~governors[g].failed

\* no executor exists, and none of the level calls made so far failed
NoneLives ==
    \A g \in Governors : ~InLifetime(g) /\ ~governors[g].failed

RECURSIVE LastWorkload(_)
LastWorkload(k) ==
    IF k = 0 THEN 0
    ELSE IF calls[k].call = "workload" THEN k
    ELSE LastWorkload(k - 1)

\* the executor exists, so the history of its bench call is at hand
Live == pc \notin {"exit", "aborted", "exited"}

\* a kernel has failed on the device
AsyncFailed == asyncErr # hipSuccess

\* C33: a kernel that fails on the device belongs to the trial whose workload
\* was submitted last, and once it has failed the thread does not get past
\* the synchronize that ends this trial: no call of a later trial is issued,
\* no synchronize returns success, no sample is read and no statistics are
\* returned; when the synchronize reports the failure, bench throws it.
C33_AsyncFailureSurfaces ==
    LET w == LastWorkload(Len(calls))
        SameTrial(c) == c.phase = calls[w].phase /\ c.trial = calls[w].trial
    IN  /\ Live =>
             \A k \in DOMAIN streamQ :
                streamQ[k].op = "kernel" => w > 0 /\ SameTrial(streamQ[k])
        /\ AsyncFailed =>
             /\ result = NoStats
             /\ durations = <<>>
             /\ pc \in {"w_sync2", "m_stop", "m_sync2", "thrown", "exit", "aborted", "exited"}
        /\ (AsyncFailed /\ Live) =>
             /\ w > 0
             /\ \A k \in (w + 1)..Len(calls) :
                   /\ SameTrial(calls[k])
                   /\ ~(calls[k].call = "sync" /\ calls[k].status = hipSuccess)
        /\ (AsyncFailed /\ pc = "thrown" /\ calls[Len(calls)].call = "sync"
              /\ calls[Len(calls)].status = asyncErr) =>
             err = gpu_error(asyncErr)

\* a kernel of the first measured trial has failed, the synchronize ending
\* that trial has reported it, and bench has thrown it with trials left
C33_Witness ==
    /\ AsyncFailed
    /\ pc = "thrown"
    /\ err = gpu_error(asyncErr)
    /\ calls[Len(calls)] =
          [call |-> "sync", phase |-> "measure", trial |-> 1, status |-> asyncErr]
    /\ Len(TrialNames("measure", 1)) = 6
    /\ iterations > 1

\* the calls issued in measured trial t, in order
TrialCalls(t) ==
    LET InTrial(c) == c.phase = "measure" /\ c.trial = t IN SelectSeq(calls, InTrial)

\* elapsed(start, stop) is about to be called, or has been called, for the
\* event pair of measured trial t
ElapsedQueried(t) ==
    \/ pc = "elapsed" /\ i = t
    \/ \E k \in DOMAIN calls : calls[k].call = "elapsed" /\ calls[k].trial = t

\* C34: when elapsed(start, stop) is called for an event pair, the trial of
\* the pair has been issued completely and without error (both records, then
\* a synchronize that returned success), all this before the first query;
\* neither record is still pending on the device, both events carry a
\* timestamp, and no query reports an event as not ready.
C34_ElapsedAfterSync ==
    \A t \in 1..iterations :
        ElapsedQueried(t) =>
            /\ [k \in 1..Len(TrialCalls(t)) |-> TrialCalls(t)[k].call] = MeasuredSteps
            /\ \A k \in 1..Len(TrialCalls(t)) : TrialCalls(t)[k].status = hipSuccess
            /\ \A j, k \in DOMAIN calls :
                  (calls[j].phase = "measure" /\ calls[k].call = "elapsed") => j < k
            /\ \A op \in Pending :
                  ~(op.op \in {"start", "stop"} /\ op.phase = "measure" /\ op.trial = t)
            /\ t \in DOMAIN events =>
                  events[t].start # NoTime /\ events[t].stop # NoTime
            /\ \A k \in DOMAIN calls :
                  calls[k].call = "elapsed" => calls[k].status # "hipErrorNotReady"

\* the sample of the last event pair has been read
C34_Witness ==
    /\ pc = "aggregate"
    /\ calls[Len(calls)] =
          [call |-> "elapsed", phase |-> "elapsed", trial |-> iterations,
           status |-> hipSuccess]
    /\ Len(durations) = iterations
    /\ nKernels >= 1

====
